---- MODULE Spec2Model ----
(***************************************************************************)
(* Model of the ride-matching repository.                                  *)
(*                                                                         *)
(* Part I  : the Redis-backed engine (RideService of                       *)
(*           src/src/services/rideService.js lines 249-1183,               *)
(*           SocketController of src/unnamed/part_002, DriverService of    *)
(*           src/src/server.js).  Every handler is asynchronous: it is     *)
(*           split at its awaits on the store, one action per store        *)
(*           command together with the synchronous code that follows it.   *)
(* Part II : the socket module (src/sockets/index.js with                  *)
(*           src/services/matchService.js).                                *)
(***************************************************************************)
EXTENDS Integers, FiniteSets, Sequences, TLC

\* ------------------------------------------------------------------------
\* Bounds of the model
\* ------------------------------------------------------------------------
Drivers == {"d1", "d2"}
Users == {"u1", "u2"}

\* number of request ids the model hands out
MaxRequests == 2
\* number of find_nearby_drivers events
MaxFinds == 2
\* number of ride_response events
MaxResponses == 3
\* number of ride_response events in the scenarios with accepts only
MaxAccepts == 2
\* number of cancel_ride_request events
MaxCancels == 1
\* handler invocations suspended at an await at the same time
MaxInFlight == 2
\* expiries of the distributed lock's 5 s TTL while its holder is still running
MaxLockExpiries == 1
\* failed Redis reads in a behaviour
MaxFaults == 4

ReqIds == 1..MaxRequests
FindIds == 1..MaxFinds
None == "none"
\* value of an absent lock:<requestId> key
NoHolder == <<"none", 0>>

\* distance (km) of a driver from the pickup point, chosen at registration
DistChoices == {4, 6}

\* ------------------------------------------------------------------------
\* Program constants
\* ------------------------------------------------------------------------
\* config/index.js as loaded with NODE_ENV unset (the development overrides
\* of DEFAULT_RADIUS and MAX_RADIUS, RADIUS_EXPANSION_STEP from baseConfig)
DEFAULT_RADIUS == 5
MAX_RADIUS == 50
RADIUS_EXPANSION_STEP == 2
\* findDriversWithExpansion
maxAttempts == 4

Min(a, b) == IF a <= b THEN a ELSE b

\* findDriversWithExpansion: the loop condition, the expansion test and the
\* expanded radius, for expansion step `step` and maximum radius `max`
loopContinues(attempt, cur, max) == attempt <= maxAttempts /\ cur <= max
expansionUnbounded(cur, step, max) == cur + step
mayExpand(attempt, cur, max) == attempt < maxAttempts /\ cur < max
expandedRadius(cur, step, max) == Min(cur + step, max)

\* ------------------------------------------------------------------------
\* Part I: state of the Redis-backed engine
\* ------------------------------------------------------------------------
VARIABLES
  requests,        \* hash ride:requests: request id -> stored record
  userActive,      \* hash users:active_requests: user -> request id
  driverActive,    \* hash drivers:active_rides: driver -> request id
  redisLock,       \* keys lock:<requestId>: request id -> lock value
  processingLocks, \* RideService.processingLocks (in-process Map)
  profiles,        \* DriverService.driverProfiles: driver -> status
  dist,            \* geo index: driver -> distance from the pickup
  nextId,          \* next fresh request id
  find,            \* findAndBroadcastToDrivers invocations
  resp,            \* handleDriverResponse invocations, one slot per pair
  tmo,             \* response-timeout timer / handleRideTimeout per request
  cancel,          \* handleCancelRideRequest invocation per request
  post,            \* pending setImmediate post-acceptance cleanups
  riderEvents,     \* io.emit / rider events emitted, per request and kind
  offered,         \* drivers sent new_ride_request, per request
  drvCancelled,    \* drivers sent ride_request_cancelled, per request
  outcome,         \* result of the last finished response per pair
  hist             \* bookkeeping used by the properties only

engineVars == <<requests, userActive, driverActive, redisLock, processingLocks,
                profiles, dist, nextId, find, resp, tmo, cancel, post,
                riderEvents, offered, drvCancelled, outcome, hist>>

\* the state of the socket module (Part II)
VARIABLES
  rideStatus,             \* Redis keys rides:status:<rideId>
  geoIndex,               \* Redis geo set drivers:geo: driver -> distance, 0 absent
  driverSockets,          \* Map driverId -> socket (its key set)
  rideToRider,            \* Map rideId -> rider record (its key set)
  rideDriverBroadcastMap, \* Map rideId -> Set(driverIds), {} when absent
  driverActiveRide,       \* Map driverId -> rideId, 0 when absent
  searchTimerByRide,      \* Map rideId -> timer (its key set)
  ride,                   \* closure of each rider:requestRide invocation
  sockAccept,             \* driver:acceptRide invocations, one slot per pair
  sockSent,               \* events emitted, per ride
  sockMaxRadius,          \* MAX_RADIUS as imported by sockets/index.js
  sockHist                \* bookkeeping used by the properties only

sockVars == <<rideStatus, geoIndex, driverSockets, rideToRider,
              rideDriverBroadcastMap, driverActiveRide, searchTimerByRide,
              ride, sockAccept, sockSent, sockMaxRadius, sockHist>>

\* the in-memory RideService (rideService.js lines 3-241)
VARIABLES
  rideObj,                \* the rideRequest objects: status, acceptedBy, reason
  rideRequests,           \* this.rideRequests: the ids of the pending requests
  activeRides,            \* this.activeRides: the ids of the active rides
  rideKey,                \* Redis key ride:<id>: the status last stored
  rideTimers,             \* the auto-cancel timers that are armed
  creating,               \* createRideRequest calls waiting for their setEx
  memHist                 \* bookkeeping used by the properties only

\* the SocketHandler class over the in-memory services (part_002 592-966)
VARIABLES
  assignedDrivers,        \* rideRequest.assignedDrivers of every ride object
  onlineDrivers,          \* DriverService.onlineDrivers: the ids
  hdl,                    \* handler invocations waiting after their await
  hdlSent                 \* the events sent to drivers, per ride

hdlVars == <<assignedDrivers, onlineDrivers, hdl, hdlSent>>

memVars == <<rideObj, rideRequests, activeRides, rideKey, rideTimers, creating,
             memHist, hdlVars>>

\* one run of the search loop of findDriversWithExpansion under a given
\* configuration
VARIABLES
  xp                      \* the loop's locals, its configuration, the radii searched

xpVars == <<xp>>

\* the invocations of the service operations completeRide, cancelRide and
\* removeDriver of the Redis-backed engine
VARIABLES
  cmpl,                   \* the completeRide invocation
  cncl,                   \* the cancelRide invocation
  rem,                    \* removeDriver invocations, per driver
  svcHist                 \* bookkeeping used by the properties only

\* the sweep of old requests (cleanupOldRequests) and the clock it reads
VARIABLES
  aged,                   \* requests whose expiresAt lies more than 10 min back
  sweep                   \* the cleanupOldRequests run

sweepVars == <<aged, sweep>>

svcVars == <<cmpl, cncl, rem, svcHist, sweepVars>>

ActiveStatuses == {"searching", "accepted"}
TerminalEvents == {"ride_accepted", "ride_all_rejected", "ride_request_timeout",
                   "no_drivers_found", "ride_cancelled"}

\* the events emitted to every socket (io.emit) that carry the request id
IoEvents == TerminalEvents \cup {"search_expansion", "drivers_found"}

NoResponses == [d \in Drivers |-> None]

\* a slot of ride:requests that holds nothing
EmptyReq == [userId |-> None, status |-> "absent", acceptedBy |-> None,
             notifiedDrivers |-> {}, responses |-> NoResponses,
             radius |-> 0]

\* the record built by findAndBroadcastToDrivers
NewRequest(u, radius) ==
  [userId |-> u, status |-> "searching", acceptedBy |-> None,
   notifiedDrivers |-> {}, responses |-> NoResponses,
   radius |-> radius]

IdleFind == [pc |-> "idle", user |-> None, req |-> 0, loc |-> EmptyReq,
             attempt |-> 0, result |-> None, existing |-> 0, prior |-> 0,
             radius |-> 0, of |-> 0, seen |-> None]
IdleResp == [pc |-> "idle", response |-> None, loc |-> EmptyReq, act |-> 0,
             result |-> None]
IdleTmo == [pc |-> "idle", loc |-> EmptyReq]
IdleCancel == [pc |-> "idle", user |-> None, loc |-> EmptyReq, seen |-> None]

Pairs == Drivers \X ReqIds

InFlight ==
  Cardinality({i \in FindIds : find[i].pc \notin {"idle", "done"}})
  + Cardinality({p \in Pairs : resp[p].pc # "idle"})
  + Cardinality({r \in ReqIds : tmo[r].pc \notin {"idle", "armed", "done"}})
  + Cardinality({r \in ReqIds : cancel[r].pc # "idle"})

EngineInit ==
  /\ requests = [r \in ReqIds |-> EmptyReq]
  /\ userActive = [u \in Users |-> 0]
  /\ driverActive = [d \in Drivers |-> 0]
  /\ redisLock = [r \in ReqIds |-> NoHolder]
  /\ processingLocks = {}
  /\ profiles = [d \in Drivers |-> None]
  /\ dist = [d \in Drivers |-> 0]
  /\ nextId = 1
  /\ find = [i \in FindIds |-> IdleFind]
  /\ resp = [p \in Pairs |-> IdleResp]
  /\ tmo = [r \in ReqIds |-> IdleTmo]
  /\ cancel = [r \in ReqIds |-> IdleCancel]
  /\ post = {}
  /\ riderEvents = [r \in ReqIds |-> [e \in IoEvents |-> 0]]
  /\ offered = [r \in ReqIds |-> {}]
  /\ drvCancelled = [r \in ReqIds |-> {}]
  /\ outcome = [p \in Pairs |-> None]
  /\ hist = [wins |-> [r \in ReqIds |-> 0],
             interfered |-> [r \in ReqIds |-> FALSE],
             quietCancel |-> [r \in ReqIds |-> FALSE],
             expiries |-> 0, responses |-> 0, cancels |-> 0,
             offers |-> [p \in Pairs |-> 0],
             repeat |-> {}, repeated |-> {},
             faults |-> 0, faultUser |-> {}, faultSearch |-> {},
             faultBusy |-> {}]

\* ------------------------------------------------------------------------
\* DriverService
\* ------------------------------------------------------------------------
\* driver_register: the profile is stored with status "available" and the
\* driver is entered into the geo index.
registerDriver(d, km) ==
  /\ profiles[d] = None
  /\ profiles' = [profiles EXCEPT ![d] = "available"]
  /\ dist' = [dist EXCEPT ![d] = km]
  /\ UNCHANGED <<requests, userActive, driverActive, redisLock, processingLocks,
                 nextId, find, resp, tmo, cancel, post, riderEvents, offered,
                 drvCancelled, outcome, hist>>
  /\ UNCHANGED <<sockVars, memVars, xpVars, svcVars>>

\* driver_status_update: handleDriverStatusUpdate validates the status and
\* calls updateDriverStatus, which fails for a driver without a profile
handleDriverStatusUpdate(d, status) ==
  /\ profiles[d] # None
  /\ status \in {"available", "busy", "offline"}
  /\ profiles' = [profiles EXCEPT ![d] = status]
  /\ UNCHANGED <<requests, userActive, driverActive, redisLock, processingLocks,
                 dist, nextId, find, resp, tmo, cancel, post, riderEvents,
                 offered, drvCancelled, outcome, hist>>
  /\ UNCHANGED <<sockVars, memVars, xpVars, svcVars>>

\* getDriverProfile(d) && profile.socketId
Connected(d) == profiles[d] # None

\* ------------------------------------------------------------------------
\* RideService: helpers
\* ------------------------------------------------------------------------
\* getDriverActiveRide(d) returns a ride: the binding exists and the ride it
\* names is accepted by d.
DriverBusy(d) ==
  /\ driverActive[d] # 0
  /\ requests[driverActive[d]].status = "accepted"
  /\ requests[driverActive[d]].acceptedBy = d

\* getDriverActiveRide(d) finds a binding it treats as a stale reference
StaleBinding(d) == driverActive[d] # 0 /\ ~DriverBusy(d)

\* geoService.findNearbyDrivers: in the geo index within the radius, driver
\* data status "available"
nearbyDrivers(radius) ==
  {d \in Drivers : profiles[d] = "available" /\ dist[d] # 0 /\ dist[d] <= radius}

\* findAvailableDrivers: the nearby drivers without an active ride
findAvailableDrivers(radius) ==
  {d \in nearbyDrivers(radius) : ~DriverBusy(d)}

\* bookkeeping: the one request of user u, if it is the only one u has and
\* its stored status is searching (0 otherwise)
UserRequests(u) == {r \in ReqIds : requests[r].userId = u}
PriorSearching(u) ==
  IF \E r \in ReqIds : UserRequests(u) = {r} /\ requests[r].status = "searching"
  THEN CHOOSE r \in ReqIds : UserRequests(u) = {r}
  ELSE 0

\* the request id, generated from the clock and Math.random, has been sent
\* to every socket: search_expansion and drivers_found go out with io.emit
Announced(r) ==
  \/ riderEvents[r]["search_expansion"] > 0
  \/ riderEvents[r]["drivers_found"] > 0

\* a client can name request r in a ride_response once it has been sent the
\* request id, in its own new_ride_request or in an io.emit
Knows(d, r) == d \in offered[r] \/ Announced(r)

Emit(r, e) == [riderEvents EXCEPT ![r][e] = @ + 1]

\* cancelOtherDriverRequests(io, r, notified, accepting): the drivers that
\* are sent ride_request_cancelled
cancelOtherDriverRequests(r, notified, accepting) ==
  [drvCancelled EXCEPT ![r] = @ \cup {d \in notified \ {accepting} : Connected(d)}]

\* ------------------------------------------------------------------------
\* RideService.findAndBroadcastToDrivers (find_nearby_drivers)
\* ------------------------------------------------------------------------
\* invocation and getUserActiveRequest's first read (hget users:active_requests)
FindStart(i, u) ==
  /\ find[i].pc = "idle"
  /\ (IF i = 1 THEN TRUE ELSE find[i - 1].pc # "idle")
  /\ InFlight < MaxInFlight
  /\ nextId + Cardinality({j \in FindIds : find[j].pc \in {"check2", "hdel", "create"}})
       <= MaxRequests
  /\ find' = [find EXCEPT ![i] =
        IF userActive[u] = 0
        THEN [@ EXCEPT !.pc = "create", !.user = u, !.prior = PriorSearching(u)]
        ELSE [@ EXCEPT !.pc = "check2", !.user = u, !.req = userActive[u],
                       !.prior = PriorSearching(u)]]
  /\ UNCHANGED <<requests, userActive, driverActive, redisLock, processingLocks,
                 profiles, dist, nextId, resp, tmo, cancel, post, riderEvents,
                 offered, drvCancelled, outcome, hist>>
  /\ UNCHANGED <<sockVars, memVars, xpVars, svcVars>>

\* invocation with a failing hget users:active_requests: getUserActiveRequest
\* catches the error, logs it and returns null, and the caller goes on to
\* create a request (a failure of the second read reaches the same catch)
FindStartFault(i, u) ==
  /\ find[i].pc = "idle"
  /\ (IF i = 1 THEN TRUE ELSE find[i - 1].pc # "idle")
  /\ InFlight < MaxInFlight
  /\ hist.faults < MaxFaults
  /\ nextId + Cardinality({j \in FindIds : find[j].pc \in {"check2", "hdel", "create"}})
       <= MaxRequests
  /\ find' = [find EXCEPT ![i] =
        [@ EXCEPT !.pc = "create", !.user = u, !.prior = PriorSearching(u)]]
  /\ hist' = [hist EXCEPT
        !.faults = @ + 1,
        !.faultUser = IF userActive[u] # 0
                         /\ requests[userActive[u]].status \in ActiveStatuses
                      THEN @ \cup {u} ELSE @]
  /\ UNCHANGED <<requests, userActive, driverActive, redisLock, processingLocks,
                 profiles, dist, nextId, resp, tmo, cancel, post, riderEvents,
                 offered, drvCancelled, outcome>>
  /\ UNCHANGED <<sockVars, memVars, xpVars, svcVars>>

\* getUserActiveRequest's second read (hget ride:requests) and the
\* ACTIVE_REQUEST_EXISTS return
FindCheck2(i) ==
  /\ find[i].pc = "check2"
  /\ find' = [find EXCEPT ![i] =
        IF requests[find[i].req].status \in ActiveStatuses
        THEN [@ EXCEPT !.pc = "done", !.result = "ACTIVE_REQUEST_EXISTS",
                       !.existing = find[i].req, !.req = 0]
        ELSE [@ EXCEPT !.pc = "hdel", !.req = 0]]
  /\ UNCHANGED <<requests, userActive, driverActive, redisLock, processingLocks,
                 profiles, dist, nextId, resp, tmo, cancel, post, riderEvents,
                 offered, drvCancelled, outcome, hist>>
  /\ UNCHANGED <<sockVars, memVars, xpVars, svcVars>>

\* getUserActiveRequest: "Clean up stale reference"
FindHdel(i) ==
  /\ find[i].pc = "hdel"
  /\ userActive' = [userActive EXCEPT ![find[i].user] = 0]
  /\ find' = [find EXCEPT ![i].pc = "create"]
  /\ UNCHANGED <<requests, driverActive, redisLock, processingLocks,
                 profiles, dist, nextId, resp, tmo, cancel, post, riderEvents,
                 offered, drvCancelled, outcome, hist>>
  /\ UNCHANGED <<sockVars, memVars, xpVars, svcVars>>

\* the record is built with additionalData.radius || DEFAULT_RADIUS; then
\* the multi: hsetnx ride:requests, hset users:active_requests
FindCreate(i) ==
  /\ find[i].pc = "create"
  /\ nextId <= MaxRequests
  /\ LET rec == NewRequest(find[i].user,
                           IF find[i].radius = 0 THEN DEFAULT_RADIUS
                           ELSE find[i].radius)
     IN
       /\ requests' = [requests EXCEPT ![nextId] = rec]
       /\ find' = [find EXCEPT ![i] =
             [@ EXCEPT !.pc = "search", !.req = nextId, !.loc = rec, !.attempt = 1]]
  /\ userActive' = [userActive EXCEPT ![find[i].user] = nextId]
  /\ nextId' = nextId + 1
  /\ UNCHANGED <<driverActive, redisLock, processingLocks,
                 profiles, dist, resp, tmo, cancel, post, riderEvents,
                 offered, drvCancelled, outcome, hist>>
  /\ UNCHANGED <<sockVars, memVars, xpVars, svcVars>>

\* findDriversWithExpansion: one pass of the loop body up to its next write.
\* findAvailableDrivers runs getDriverActiveRide for every nearby driver,
\* which deletes the bindings it considers stale.
FindSearch(i) ==
  /\ find[i].pc = "search"
  /\ LET t == find[i]
         radius == t.loc.radius
         avail == findAvailableDrivers(radius)
         grown == expandedRadius(radius, RADIUS_EXPANSION_STEP, MAX_RADIUS)
     IN
       /\ driverActive' = [d \in Drivers |->
             IF d \in nearbyDrivers(radius) /\ StaleBinding(d) THEN 0
             ELSE driverActive[d]]
       /\ find' = [find EXCEPT ![i] =
             IF avail # {}
             THEN [@ EXCEPT !.pc = "bc_write",
                            !.loc = [t.loc EXCEPT !.notifiedDrivers = avail]]
             ELSE IF mayExpand(t.attempt, radius, MAX_RADIUS)
             THEN [@ EXCEPT !.pc = "expand",
                            !.loc = [t.loc EXCEPT !.radius = grown]]
             ELSE IF loopContinues(t.attempt + 1, radius, MAX_RADIUS)
             THEN [@ EXCEPT !.attempt = @ + 1]
             ELSE [@ EXCEPT !.pc = "nd_cleanup", !.attempt = @ + 1]]
       /\ riderEvents' = IF avail # {} THEN riderEvents
                         ELSE Emit(t.req, "search_expansion")
  /\ UNCHANGED <<requests, userActive, redisLock, processingLocks,
                 profiles, dist, nextId, resp, tmo, cancel, post,
                 offered, drvCancelled, outcome, hist>>
  /\ UNCHANGED <<sockVars, memVars, xpVars, svcVars>>

\* one pass of the loop in which a read of findAvailableDrivers fails: the
\* catch logs the error and returns [], which the loop takes for "no driver
\* in this radius"
FindSearchFault(i) ==
  /\ find[i].pc = "search"
  /\ hist.faults < MaxFaults
  /\ LET t == find[i]
         radius == t.loc.radius
         grown == expandedRadius(radius, RADIUS_EXPANSION_STEP, MAX_RADIUS)
     IN
       /\ find' = [find EXCEPT ![i] =
             IF mayExpand(t.attempt, radius, MAX_RADIUS)
             THEN [@ EXCEPT !.pc = "expand",
                            !.loc = [t.loc EXCEPT !.radius = grown]]
             ELSE IF loopContinues(t.attempt + 1, radius, MAX_RADIUS)
             THEN [@ EXCEPT !.attempt = @ + 1]
             ELSE [@ EXCEPT !.pc = "nd_cleanup", !.attempt = @ + 1]]
       /\ riderEvents' = Emit(t.req, "search_expansion")
       /\ hist' = [hist EXCEPT
             !.faults = @ + 1,
             !.faultSearch = IF findAvailableDrivers(radius) # {}
                             THEN @ \cup {t.req} ELSE @]
  /\ UNCHANGED <<requests, userActive, driverActive, redisLock, processingLocks,
                 profiles, dist, nextId, resp, tmo, cancel, post,
                 offered, drvCancelled, outcome>>
  /\ UNCHANGED <<sockVars, memVars, xpVars, svcVars>>

\* updateRideRequestAtomic after a radius expansion, then the 2 s wait
FindExpandWrite(i) ==
  /\ find[i].pc = "expand"
  /\ requests' = [requests EXCEPT ![find[i].req] = find[i].loc]
  /\ find' = [find EXCEPT ![i] = [@ EXCEPT !.pc = "search", !.attempt = @ + 1]]
  /\ UNCHANGED <<userActive, driverActive, redisLock, processingLocks,
                 profiles, dist, nextId, resp, tmo, cancel, post, riderEvents,
                 offered, drvCancelled, outcome, hist>>
  /\ UNCHANGED <<sockVars, memVars, xpVars, svcVars>>

\* cleanupFailedRequest before the no_drivers_found write
FindNoDriversCleanup(i) ==
  /\ find[i].pc = "nd_cleanup"
  /\ userActive' = [userActive EXCEPT ![find[i].user] = 0]
  /\ find' = [find EXCEPT ![i] =
        [@ EXCEPT !.pc = "nd_write",
                  !.loc = [@ EXCEPT !.status = "no_drivers_found"]]]
  /\ UNCHANGED <<requests, driverActive, redisLock, processingLocks,
                 profiles, dist, nextId, resp, tmo, cancel, post, riderEvents,
                 offered, drvCancelled, outcome, hist>>
  /\ UNCHANGED <<sockVars, memVars, xpVars, svcVars>>

\* the no_drivers_found write and event
FindNoDriversWrite(i) ==
  /\ find[i].pc = "nd_write"
  /\ requests' = [requests EXCEPT ![find[i].req] = find[i].loc]
  /\ riderEvents' = Emit(find[i].req, "no_drivers_found")
  /\ find' = [find EXCEPT ![i] =
        [@ EXCEPT !.pc = "done", !.result = "no_drivers_found", !.loc = EmptyReq]]
  /\ UNCHANGED <<userActive, driverActive, redisLock, processingLocks,
                 profiles, dist, nextId, resp, tmo, cancel, post,
                 offered, drvCancelled, outcome, hist>>
  /\ UNCHANGED <<sockVars, memVars, xpVars, svcVars>>

\* a broadcastToFoundDrivers that does not start the response-timeout timer
broadcastWithoutTimer(i) ==
  /\ find[i].pc = "bc_write"
  /\ LET r == find[i].req IN
       /\ requests' = [requests EXCEPT ![r] = find[i].loc]
       /\ offered' = [offered EXCEPT ![r] =
             @ \cup {d \in find[i].loc.notifiedDrivers : Connected(d)}]
       /\ hist' = [hist EXCEPT !.offers = [p \in Pairs |->
             IF p[2] = r /\ p[1] \in find[i].loc.notifiedDrivers
                /\ Connected(p[1])
             THEN @[p] + 1 ELSE @[p]]]
       /\ riderEvents' = Emit(r, "drivers_found")
  /\ find' = [find EXCEPT ![i] =
        [@ EXCEPT !.pc = "done", !.result = "success", !.loc = EmptyReq]]
  /\ UNCHANGED <<userActive, driverActive, redisLock, processingLocks,
                 profiles, dist, nextId, resp, tmo, cancel, post,
                 drvCancelled, outcome>>
  /\ UNCHANGED <<sockVars, memVars, xpVars, svcVars>>

\* broadcastToFoundDrivers: the write of the notified drivers, the offers and
\* the response-timeout timer
broadcastToFoundDrivers(i) ==
  /\ find[i].pc = "bc_write"
  /\ LET r == find[i].req IN
       /\ requests' = [requests EXCEPT ![r] = find[i].loc]
       /\ offered' = [offered EXCEPT ![r] =
             @ \cup {d \in find[i].loc.notifiedDrivers : Connected(d)}]
       /\ hist' = [hist EXCEPT !.offers = [p \in Pairs |->
             IF p[2] = r /\ p[1] \in find[i].loc.notifiedDrivers
                /\ Connected(p[1])
             THEN @[p] + 1 ELSE @[p]]]
       /\ tmo' = [tmo EXCEPT ![r].pc = "armed"]
       /\ riderEvents' = Emit(r, "drivers_found")
  /\ find' = [find EXCEPT ![i] =
        [@ EXCEPT !.pc = "done", !.result = "success", !.loc = EmptyReq]]
  /\ UNCHANGED <<userActive, driverActive, redisLock, processingLocks,
                 profiles, dist, nextId, resp, cancel, post,
                 drvCancelled, outcome>>
  /\ UNCHANGED <<sockVars, memVars, xpVars, svcVars>>

FindStep(i) ==
  \/ FindCheck2(i)
  \/ FindHdel(i)
  \/ FindCreate(i)
  \/ FindSearch(i)
  \/ FindExpandWrite(i)
  \/ FindNoDriversCleanup(i)
  \/ FindNoDriversWrite(i)
  \/ broadcastToFoundDrivers(i)

\* ------------------------------------------------------------------------
\* SocketController.handleExpandSearchRadius (expand_search_radius)
\* ------------------------------------------------------------------------
\* (the client has the request id from an event of that request)
\* getRideRequest, the "Invalid ride request" return, newRadius; the handler
\* then calls findAndBroadcastToDrivers with { ...rideRequest, radius:
\* newRadius } as additionalData
ExpandRead(i, u, r) ==
  /\ find[i].pc = "idle"
  /\ Announced(r)
  /\ InFlight < MaxInFlight
  /\ nextId + Cardinality({j \in FindIds :
                 find[j].pc \in {"xstart", "check2", "hdel", "create"}})
       <= MaxRequests
  /\ find' = [find EXCEPT ![i] =
        IF requests[r].status = "absent" \/ requests[r].userId # u
        THEN @
        ELSE [@ EXCEPT !.pc = "xstart", !.user = u, !.of = r,
                       !.seen = requests[r].status,
                       !.radius = expandedRadius(requests[r].radius,
                                                 RADIUS_EXPANSION_STEP,
                                                 MAX_RADIUS)]]
  /\ UNCHANGED <<requests, userActive, driverActive, redisLock, processingLocks,
                 profiles, dist, nextId, resp, tmo, cancel, post, riderEvents,
                 offered, drvCancelled, outcome, hist>>
  /\ UNCHANGED <<sockVars, memVars, xpVars, svcVars>>

\* findAndBroadcastToDrivers as called by the handler: getUserActiveRequest's
\* first read (hget users:active_requests)
ExpandStart(i) ==
  /\ find[i].pc = "xstart"
  /\ find' = [find EXCEPT ![i] =
        IF userActive[find[i].user] = 0
        THEN [@ EXCEPT !.pc = "create"]
        ELSE [@ EXCEPT !.pc = "check2", !.req = userActive[find[i].user]]]
  /\ UNCHANGED <<requests, userActive, driverActive, redisLock, processingLocks,
                 profiles, dist, nextId, resp, tmo, cancel, post, riderEvents,
                 offered, drvCancelled, outcome, hist>>
  /\ UNCHANGED <<sockVars, memVars, xpVars, svcVars>>

\* ------------------------------------------------------------------------
\* RideService.handleDriverResponse (ride_response)
\* ------------------------------------------------------------------------
RespVarsUnchanged ==
  /\ UNCHANGED <<userActive, profiles, dist, nextId, find, tmo, cancel>>
  /\ UNCHANGED <<sockVars, memVars, xpVars, svcVars>>

\* the synchronous lock test of lines 691-700, reached with pc = "lockcheck";
\* an invocation that returns here still runs the outer finally, which
\* deletes processingLocks[lockKey]
LockCheck(p, t) ==
  IF p[2] \in processingLocks
  THEN /\ processingLocks' = processingLocks \ {p[2]}
       /\ outcome' = [outcome EXCEPT ![p] = "already_processing"]
       /\ resp' = [resp EXCEPT ![p] = IdleResp]
  ELSE /\ processingLocks' = processingLocks \cup {p[2]}
       /\ outcome' = outcome
       /\ resp' = [resp EXCEPT ![p] = [t EXCEPT !.pc = "redislock"]]

\* a reject: invocation, straight to the lock test
RespStartReject(p) ==
  /\ resp[p].pc = "idle"
  /\ hist.responses < MaxResponses
  /\ Knows(p[1], p[2])
  /\ InFlight < MaxInFlight
  /\ LockCheck(p, [resp[p] EXCEPT !.response = "reject"])
  /\ hist' = [hist EXCEPT !.responses = @ + 1]
  /\ UNCHANGED <<requests, driverActive, redisLock, post, riderEvents,
                 offered, drvCancelled>>
  /\ RespVarsUnchanged

\* an accept: invocation and getDriverActiveRide's first read
\* (hget drivers:active_rides)
RespStartAccept(p) ==
  /\ resp[p].pc = "idle"
  /\ hist.responses < MaxResponses
  /\ Knows(p[1], p[2])
  /\ InFlight < MaxInFlight
  /\ resp' = [resp EXCEPT ![p] =
        [@ EXCEPT !.response = "accept",
                  !.act = driverActive[p[1]],
                  !.pc = IF driverActive[p[1]] = 0 THEN "lockcheck" ELSE "busy2"]]
  /\ hist' = [hist EXCEPT !.responses = @ + 1]
  /\ UNCHANGED <<requests, driverActive, redisLock, processingLocks, post,
                 riderEvents, offered, drvCancelled, outcome>>
  /\ RespVarsUnchanged

\* an accept whose hget drivers:active_rides fails: getDriverActiveRide
\* catches the error, logs it and returns null, and the handler goes on to
\* the lock test
RespStartAcceptFault(p) ==
  /\ resp[p].pc = "idle"
  /\ hist.responses < MaxResponses
  /\ hist.faults < MaxFaults
  /\ Knows(p[1], p[2])
  /\ InFlight < MaxInFlight
  /\ resp' = [resp EXCEPT ![p] =
        [@ EXCEPT !.response = "accept", !.pc = "lockcheck"]]
  /\ hist' = [hist EXCEPT
        !.responses = @ + 1,
        !.faults = @ + 1,
        !.faultBusy = IF DriverBusy(p[1]) /\ requests[p[2]].status = "searching"
                      THEN @ \cup {p} ELSE @]
  /\ UNCHANGED <<requests, driverActive, redisLock, processingLocks, post,
                 riderEvents, offered, drvCancelled, outcome>>
  /\ RespVarsUnchanged

\* getDriverActiveRide's second read (hget ride:requests) and, when the
\* driver is busy, the driver_busy return (with the outer finally)
RespBusyRead(p) ==
  /\ resp[p].pc = "busy2"
  /\ LET rideData == requests[resp[p].act] IN
       IF rideData.status = "accepted" /\ rideData.acceptedBy = p[1]
       THEN /\ drvCancelled' = [drvCancelled EXCEPT ![p[2]] =
                  IF Connected(p[1]) THEN @ \cup {p[1]} ELSE @]
            /\ processingLocks' = processingLocks \ {p[2]}
            /\ outcome' = [outcome EXCEPT ![p] = "driver_busy"]
            /\ resp' = [resp EXCEPT ![p] = IdleResp]
       ELSE /\ resp' = [resp EXCEPT ![p].pc = "busy3"]
            /\ UNCHANGED <<drvCancelled, processingLocks, outcome>>
  /\ UNCHANGED <<requests, driverActive, redisLock, post, riderEvents,
                 offered, hist>>
  /\ RespVarsUnchanged

\* getDriverActiveRide: "Clean up stale reference" (hdel drivers:active_rides)
RespStaleHdel(p) ==
  /\ resp[p].pc = "busy3"
  /\ driverActive' = [driverActive EXCEPT ![p[1]] = 0]
  /\ resp' = [resp EXCEPT ![p] = [@ EXCEPT !.pc = "lockcheck", !.act = 0]]
  /\ UNCHANGED <<requests, redisLock, processingLocks, post, riderEvents,
                 offered, drvCancelled, outcome, hist>>
  /\ RespVarsUnchanged

\* the lock test of an accept, after getDriverActiveRide returned null
RespLockCheck(p) ==
  /\ resp[p].pc = "lockcheck"
  /\ LockCheck(p, resp[p])
  /\ UNCHANGED <<requests, driverActive, redisLock, post, riderEvents,
                 offered, drvCancelled, hist>>
  /\ RespVarsUnchanged

\* SET lock:<requestId> <lockValue> PX 5000 NX; the lock value is unique to
\* the invocation (the pair stands for it); lock_failed runs the outer finally
RespRedisLock(p) ==
  /\ resp[p].pc = "redislock"
  /\ IF redisLock[p[2]] = NoHolder
     THEN /\ redisLock' = [redisLock EXCEPT ![p[2]] = p]
          /\ resp' = [resp EXCEPT ![p].pc = "read"]
          /\ UNCHANGED <<processingLocks, outcome>>
     ELSE /\ processingLocks' = processingLocks \ {p[2]}
          /\ outcome' = [outcome EXCEPT ![p] = "lock_failed"]
          /\ resp' = [resp EXCEPT ![p] = IdleResp]
          /\ UNCHANGED redisLock
  /\ UNCHANGED <<requests, driverActive, post, riderEvents,
                 offered, drvCancelled, hist>>
  /\ RespVarsUnchanged

\* the bookkeeping of RespRead: the invocation is a repeated reject when the
\* record read already holds a reject of this driver
markRepeat(p) ==
  IF resp[p].response = "reject" /\ requests[p[2]].responses[p[1]] = "reject"
  THEN [hist EXCEPT !.repeat = @ \cup {p}]
  ELSE hist

\* a RespRead without the status tests of lines 733-760
RespReadNoStatusTest(p) ==
  /\ resp[p].pc = "read"
  /\ LET cur == requests[p[2]]
         t == resp[p]
         withResp == [cur EXCEPT !.responses[p[1]] = t.response]
     IN
       /\ resp' = [resp EXCEPT ![p] =
            IF cur.status = "absent"
            THEN [t EXCEPT !.pc = "unlock", !.result = "request_not_found"]
            ELSE IF t.response = "accept"
            THEN [t EXCEPT !.pc = "exec",
                           !.loc = [withResp EXCEPT !.status = "accepted",
                                                    !.acceptedBy = p[1]]]
            ELSE [t EXCEPT !.pc = "rej_write",
                           !.loc = withResp]]
       /\ drvCancelled' = drvCancelled
  /\ hist' = markRepeat(p)
  /\ UNCHANGED <<requests, driverActive, redisLock, processingLocks, post,
                 riderEvents, offered, outcome>>
  /\ RespVarsUnchanged

\* getRideRequest under the lock and the status tests of lines 725-777
RespRead(p) ==
  /\ resp[p].pc = "read"
  /\ LET cur == requests[p[2]]
         t == resp[p]
         withResp == [cur EXCEPT !.responses[p[1]] = t.response]
     IN
       /\ resp' = [resp EXCEPT ![p] =
            IF cur.status = "absent"
            THEN [t EXCEPT !.pc = "unlock", !.result = "request_not_found"]
            ELSE IF cur.status = "accepted"
            THEN [t EXCEPT !.pc = "unlock", !.result = "already_accepted"]
            ELSE IF cur.status # "searching"
            THEN [t EXCEPT !.pc = "unlock", !.result = "request_closed"]
            ELSE IF t.response = "accept"
            THEN [t EXCEPT !.pc = "exec",
                           !.loc = [withResp EXCEPT !.status = "accepted",
                                                    !.acceptedBy = p[1]]]
            ELSE [t EXCEPT !.pc = "rej_write",
                           !.loc = withResp]]
       /\ drvCancelled' = [drvCancelled EXCEPT ![p[2]] =
            IF cur.status = "accepted" /\ Connected(p[1]) THEN @ \cup {p[1]} ELSE @]
  /\ hist' = markRepeat(p)
  /\ UNCHANGED <<requests, driverActive, redisLock, processingLocks, post,
                 riderEvents, offered, outcome>>
  /\ RespVarsUnchanged

\* the accept multi of lines 780-799: hget ride:requests, hset ride:requests,
\* hset drivers:active_rides, all executed; then the test of the value read
RespExec(p) ==
  /\ resp[p].pc = "exec"
  /\ LET cur == requests[p[2]]
         t == resp[p]
         lost == cur.status = "accepted" /\ cur.acceptedBy # p[1]
         won == cur.status # "absent" /\ ~lost
     IN
       /\ requests' = [requests EXCEPT ![p[2]] = t.loc]
       /\ driverActive' = [driverActive EXCEPT ![p[1]] = p[2]]
       /\ resp' = [resp EXCEPT ![p] =
            IF cur.status = "absent" THEN [t EXCEPT !.pc = "unlock", !.result = "error"]
            ELSE IF lost THEN [t EXCEPT !.pc = "race_hdel"]
            ELSE [t EXCEPT !.pc = "unlock", !.result = "accepted"]]
       /\ riderEvents' = IF won THEN Emit(p[2], "ride_accepted") ELSE riderEvents
       /\ post' = IF won
                  THEN post \cup {[driver |-> p[1], req |-> p[2],
                                   notified |-> t.loc.notifiedDrivers]}
                  ELSE post
       /\ hist' = IF won THEN [hist EXCEPT !.wins[p[2]] = @ + 1] ELSE hist
  /\ UNCHANGED <<redisLock, processingLocks, offered, drvCancelled, outcome>>
  /\ RespVarsUnchanged

\* "Race condition detected": hdel drivers:active_rides for this driver, the
\* ride_request_cancelled event, already_accepted
RespRaceHdel(p) ==
  /\ resp[p].pc = "race_hdel"
  /\ driverActive' = [driverActive EXCEPT ![p[1]] = 0]
  /\ drvCancelled' = [drvCancelled EXCEPT ![p[2]] =
        IF Connected(p[1]) THEN @ \cup {p[1]} ELSE @]
  /\ resp' = [resp EXCEPT ![p] = [@ EXCEPT !.pc = "unlock", !.result = "already_accepted"]]
  /\ UNCHANGED <<requests, redisLock, processingLocks, post, riderEvents,
                 offered, outcome, hist>>
  /\ RespVarsUnchanged

\* the reject branch: updateRideRequestAtomic, then the all-responded test
RespRejectWrite(p) ==
  /\ resp[p].pc = "rej_write"
  /\ LET t == resp[p]
         responders == {d \in Drivers : t.loc.responses[d] # None}
         accepts == {d \in Drivers : t.loc.responses[d] = "accept"}
     IN
       /\ requests' = [requests EXCEPT ![p[2]] = t.loc]
       /\ resp' = [resp EXCEPT ![p] =
            IF Cardinality(responders) >= Cardinality(t.loc.notifiedDrivers)
               /\ accepts = {}
            THEN [t EXCEPT !.pc = "rej_cleanup"]
            ELSE [t EXCEPT !.pc = "unlock", !.result = "rejected"]]
  /\ UNCHANGED <<driverActive, redisLock, processingLocks, post, riderEvents,
                 offered, drvCancelled, outcome, hist>>
  /\ RespVarsUnchanged

\* all rejected: cleanupFailedRequest (hdel users:active_requests)
RespRejectCleanup(p) ==
  /\ resp[p].pc = "rej_cleanup"
  /\ userActive' = [userActive EXCEPT ![resp[p].loc.userId] = 0]
  /\ resp' = [resp EXCEPT ![p] =
        [@ EXCEPT !.pc = "rej_write2",
                  !.loc = [@ EXCEPT !.status = "all_rejected"]]]
  /\ UNCHANGED <<requests, driverActive, redisLock, processingLocks, post,
                 riderEvents, offered, drvCancelled, outcome, hist,
                 profiles, dist, nextId, find, tmo, cancel>>
  /\ UNCHANGED <<sockVars, memVars, xpVars, svcVars>>

\* all rejected: the all_rejected write and the ride_all_rejected event
RespRejectWrite2(p) ==
  /\ resp[p].pc = "rej_write2"
  /\ requests' = [requests EXCEPT ![p[2]] = resp[p].loc]
  /\ riderEvents' = Emit(p[2], "ride_all_rejected")
  /\ resp' = [resp EXCEPT ![p] = [@ EXCEPT !.pc = "unlock", !.result = "rejected"]]
  /\ UNCHANGED <<driverActive, redisLock, processingLocks, post,
                 offered, drvCancelled, outcome, hist>>
  /\ RespVarsUnchanged

\* the inner finally (compare-and-delete of the distributed lock) and the
\* outer finally (processingLocks.delete); the invocation returns
RespUnlock(p) ==
  /\ resp[p].pc = "unlock"
  /\ redisLock' = [redisLock EXCEPT ![p[2]] = IF @ = p THEN NoHolder ELSE @]
  /\ processingLocks' = processingLocks \ {p[2]}
  /\ outcome' = [outcome EXCEPT ![p] = resp[p].result]
  /\ resp' = [resp EXCEPT ![p] = IdleResp]
  /\ hist' = [hist EXCEPT
        !.repeat = @ \ {p},
        !.repeated = IF p \in hist.repeat THEN @ \cup {p} ELSE @]
  /\ UNCHANGED <<requests, driverActive, post, riderEvents,
                 offered, drvCancelled>>
  /\ RespVarsUnchanged

handleDriverResponse(p) ==
  \/ RespStartAccept(p)
  \/ RespStartReject(p)
  \/ RespBusyRead(p)
  \/ RespStaleHdel(p)
  \/ RespLockCheck(p)
  \/ RespRedisLock(p)
  \/ RespRead(p)
  \/ RespExec(p)
  \/ RespRaceHdel(p)
  \/ RespRejectWrite(p)
  \/ RespRejectCleanup(p)
  \/ RespRejectWrite2(p)
  \/ RespUnlock(p)

\* the PX 5000 expiry of lock:<requestId> while its holder is still inside
\* the critical section
LockExpire(r) ==
  /\ redisLock[r] # NoHolder
  /\ hist.expiries < MaxLockExpiries
  /\ redisLock' = [redisLock EXCEPT ![r] = NoHolder]
  /\ hist' = [hist EXCEPT !.expiries = @ + 1]
  /\ UNCHANGED <<requests, userActive, driverActive, processingLocks,
                 profiles, dist, nextId, find, resp, tmo, cancel, post,
                 riderEvents, offered, drvCancelled, outcome>>
  /\ UNCHANGED <<sockVars, memVars, xpVars, svcVars>>

\* the setImmediate callback of lines 842-855: cancelOtherDriverRequests,
\* then driverService.updateDriverStatus(driverId, "busy"), which throws
\* (and is logged) when the driver has no profile
PostAcceptCleanup(c) ==
  /\ c \in post
  /\ post' = post \ {c}
  /\ drvCancelled' = cancelOtherDriverRequests(c.req, c.notified, c.driver)
  /\ profiles' = [profiles EXCEPT ![c.driver] = IF @ = None THEN None ELSE "busy"]
  /\ UNCHANGED <<requests, userActive, driverActive, redisLock, processingLocks,
                 dist, nextId, find, resp, tmo, cancel, riderEvents, offered,
                 outcome, hist>>
  /\ UNCHANGED <<sockVars, memVars, xpVars, svcVars>>

\* ------------------------------------------------------------------------
\* RideService.handleRideTimeout (the timer armed by broadcastToFoundDrivers)
\* ------------------------------------------------------------------------
TmoVarsUnchanged ==
  /\ UNCHANGED <<driverActive, redisLock, processingLocks, profiles, dist, nextId,
                find, resp, cancel, post, offered, outcome>>
  /\ UNCHANGED <<sockVars, memVars, xpVars, svcVars>>

\* the timer fires: getRideRequest and the status test
TimeoutFire(r) ==
  /\ tmo[r].pc = "armed"
  /\ InFlight < MaxInFlight
  /\ tmo' = [tmo EXCEPT ![r] =
        IF requests[r].status # "searching"
        THEN [@ EXCEPT !.pc = "done"]
        ELSE [@ EXCEPT !.pc = "cleanup", !.loc = requests[r]]]
  /\ hist' = [hist EXCEPT !.interfered[r] = TRUE]
  /\ UNCHANGED <<requests, userActive, riderEvents, drvCancelled>>
  /\ TmoVarsUnchanged

\* cleanupFailedRequest (hdel users:active_requests)
TimeoutCleanup(r) ==
  /\ tmo[r].pc = "cleanup"
  /\ userActive' = [userActive EXCEPT ![tmo[r].loc.userId] = 0]
  /\ tmo' = [tmo EXCEPT ![r] =
        [@ EXCEPT !.pc = "write",
                  !.loc = [@ EXCEPT !.status = "timeout"]]]
  /\ UNCHANGED <<requests, riderEvents, drvCancelled, hist>>
  /\ TmoVarsUnchanged

\* the timeout write, ride_request_timeout, cancelOtherDriverRequests
TimeoutWrite(r) ==
  /\ tmo[r].pc = "write"
  /\ requests' = [requests EXCEPT ![r] = tmo[r].loc]
  /\ riderEvents' = Emit(r, "ride_request_timeout")
  /\ drvCancelled' = cancelOtherDriverRequests(r, tmo[r].loc.notifiedDrivers, None)
  /\ tmo' = [tmo EXCEPT ![r] = [pc |-> "done", loc |-> EmptyReq]]
  /\ UNCHANGED <<userActive, hist>>
  /\ TmoVarsUnchanged

handleRideTimeout(r) ==
  \/ TimeoutFire(r)
  \/ TimeoutCleanup(r)
  \/ TimeoutWrite(r)

\* ------------------------------------------------------------------------
\* SocketController.handleCancelRideRequest (cancel_ride_request)
\* ------------------------------------------------------------------------
CancelVarsUnchanged ==
  /\ UNCHANGED <<userActive, driverActive, redisLock, processingLocks, profiles,
                dist, nextId, find, resp, tmo, post, offered, outcome>>
  /\ UNCHANGED <<sockVars, memVars, xpVars, svcVars>>

\* getRideRequest, the ownership test, and the local status assignment
CancelRead(r, u) ==
  /\ cancel[r].pc = "idle"
  /\ hist.cancels < MaxCancels
  /\ Announced(r)
  /\ InFlight < MaxInFlight
  /\ IF requests[r].userId # u
     THEN /\ cancel' = cancel
          /\ hist' = [hist EXCEPT !.cancels = @ + 1]
     ELSE /\ cancel' = [cancel EXCEPT ![r] =
                [@ EXCEPT !.pc = "write", !.user = u,
                          !.seen = requests[r].status,
                          !.loc = [requests[r] EXCEPT !.status = "cancelled_by_user"]]]
          /\ hist' = [hist EXCEPT !.cancels = @ + 1, !.interfered[r] = TRUE]
  /\ UNCHANGED <<requests, riderEvents, drvCancelled>>
  /\ CancelVarsUnchanged

\* bookkeeping: the cancel that is about to be written read the request as
\* searching with two notified drivers, and no driver has sent a response
QuietCancel(r) ==
  /\ cancel[r].seen = "searching"
  /\ Cardinality(cancel[r].loc.notifiedDrivers) = 2
  /\ \A d \in Drivers : resp[<<d, r>>].pc = "idle" /\ outcome[<<d, r>>] = None

\* hset ride:requests, cancelOtherDriverRequests, ride_cancelled
CancelWrite(r) ==
  /\ cancel[r].pc = "write"
  /\ requests' = [requests EXCEPT ![r] = cancel[r].loc]
  /\ drvCancelled' = cancelOtherDriverRequests(r, cancel[r].loc.notifiedDrivers, None)
  /\ riderEvents' = Emit(r, "ride_cancelled")
  /\ cancel' = [cancel EXCEPT ![r] = IdleCancel]
  /\ hist' = [hist EXCEPT !.quietCancel[r] = QuietCancel(r)]
  /\ CancelVarsUnchanged

handleCancelRideRequest(r) ==
  \/ \E u \in Users : CancelRead(r, u)
  \/ CancelWrite(r)

\* ========================================================================
\* Part II: the socket module (sockets/index.js, services/matchService.js,
\* controllers/riderController.js, controllers/driverController.js)
\* ========================================================================
MaxSockRides == 2
MaxSockAccepts == 2   \* driver:acceptRide events in a behaviour
MaxRounds == 2        \* firings of the search timer per ride
MaxSearchRounds == 5  \* firings of the search timer in the runs of one search
SockRides == 1..MaxSockRides
SockPairs == Drivers \X SockRides
SockDistChoices == {4, 7}

SEARCH_INITIAL_RADIUS == 5
SEARCH_RADIUS_INCREMENT == 3
\* utils/constants.js assigns module.exports twice: the first object has
\* MAX_RADIUS 15, the second (the one a single module ends up exporting) has
\* no MAX_RADIUS.  Both builds are kept; NoMax stands for undefined.
NoMax == 0
MaxRadiusBuilds == {15, NoMax}

NoRide == [pc |-> "none", radius |-> 0, foundDrivers |-> {}, rounds |-> 0]
IdleAccept == [pc |-> "idle", accepted |-> FALSE, late |-> FALSE]
NothingSent == [request |-> {}, status |-> {}, rider |-> {}]

SockInit ==
  /\ rideStatus = [r \in SockRides |-> "nil"]
  /\ geoIndex = [d \in Drivers |-> 0]
  /\ driverSockets = {}
  /\ rideToRider = {}
  /\ rideDriverBroadcastMap = [r \in SockRides |-> {}]
  /\ driverActiveRide = [d \in Drivers |-> 0]
  /\ searchTimerByRide = {}
  /\ ride = [r \in SockRides |-> NoRide]
  /\ sockAccept = [p \in SockPairs |-> IdleAccept]
  /\ sockSent = [r \in SockRides |-> NothingSent]
  /\ sockMaxRadius \in MaxRadiusBuilds
  /\ sockHist = [cancelled |-> {}, accepts |-> 0,
                 lateResult |-> [p \in SockPairs |-> None],
                 tried |-> [r \in SockRides |-> {}],
                 won |-> [r \in SockRides |-> {}],
                 failed |-> [r \in SockRides |-> {}],
                 finished |-> {},
                 offers |-> [p \in SockPairs |-> 0],
                 skipped |-> {}]

\* driver:online: driverSockets.set, geoAdd, hSet drivers:status
driverOnline(d, km) ==
  /\ d \notin driverSockets
  /\ driverSockets' = driverSockets \cup {d}
  /\ geoIndex' = [geoIndex EXCEPT ![d] = km]
  /\ UNCHANGED <<rideStatus, rideToRider, rideDriverBroadcastMap,
                 driverActiveRide, searchTimerByRide, ride, sockAccept,
                 sockSent, sockMaxRadius, sockHist>>
  /\ UNCHANGED <<engineVars, memVars, xpVars, svcVars>>

\* driver:offline: driverSockets.delete, zRem, hDel
driverOffline(d) ==
  /\ d \in driverSockets
  /\ driverSockets' = driverSockets \ {d}
  /\ geoIndex' = [geoIndex EXCEPT ![d] = 0]
  /\ UNCHANGED <<rideStatus, rideToRider, rideDriverBroadcastMap,
                 driverActiveRide, searchTimerByRide, ride, sockAccept,
                 sockSent, sockMaxRadius, sockHist>>
  /\ UNCHANGED <<engineVars, memVars, xpVars, svcVars>>

\* geoService.findNearbyDrivers (GEOSEARCH drivers:geo)
getNearbyDrivers(radius) ==
  {d \in Drivers : geoIndex[d] # 0 /\ geoIndex[d] <= radius}

\* rider:requestRide up to its first await's completion: createRideRequest
\* (setRidePending), then rideToRider.set and the closure variables
requestRide(r) ==
  /\ ride[r].pc = "none"
  /\ \A q \in SockRides : q < r => ride[q].pc # "none"
  /\ rideStatus' = [rideStatus EXCEPT ![r] = "pending"]
  /\ rideToRider' = rideToRider \cup {r}
  /\ ride' = [ride EXCEPT ![r] =
        [pc |-> "first", radius |-> SEARCH_INITIAL_RADIUS,
         foundDrivers |-> {}, rounds |-> 0]]
  /\ UNCHANGED <<geoIndex, driverSockets, rideDriverBroadcastMap,
                 driverActiveRide, searchTimerByRide, sockAccept, sockSent,
                 sockMaxRadius, sockHist>>
  /\ UNCHANGED <<engineVars, memVars, xpVars, svcVars>>

\* the rides:status key written by setRidePending with EX 300 expires; the
\* SET of tryAcceptRide carries no expiry, so a driver id stays
statusExpire(r) ==
  /\ rideStatus[r] = "pending"
  /\ rideStatus' = [rideStatus EXCEPT ![r] = "nil"]
  /\ UNCHANGED <<geoIndex, driverSockets, rideToRider, rideDriverBroadcastMap,
                 driverActiveRide, searchTimerByRide, ride, sockAccept,
                 sockSent, sockMaxRadius, sockHist>>
  /\ UNCHANGED <<engineVars, memVars, xpVars, svcVars>>

\* broadcastRide after getNearbyDrivers has answered: the eligible new
\* drivers are sent ride:request, the nearby drivers enter the broadcast map
broadcastRideNoFilter(r, sent) ==
  LET nearby == getNearbyDrivers(ride[r].radius)
      eligible == {d \in nearby : driverActiveRide[d] = 0}
  IN  IF nearby = {}
      THEN [found |-> ride[r].foundDrivers,
            map |-> rideDriverBroadcastMap,
            sent |-> sent, emitted |-> {}, skipped |-> {}]
      ELSE [found |-> ride[r].foundDrivers \cup eligible,
            map |-> [rideDriverBroadcastMap EXCEPT ![r] = @ \cup nearby],
            sent |-> [sent EXCEPT ![r].request =
                        @ \cup (eligible \cap driverSockets)],
            emitted |-> eligible \cap driverSockets,
            skipped |-> {}]

\* broadcastRide: `emitted` are the drivers sent ride:request by this call,
\* `skipped` the eligible drivers left out because foundDrivers has them
broadcastRide(r, sent) ==
  LET nearby == getNearbyDrivers(ride[r].radius)
      eligible == {d \in nearby : driverActiveRide[d] = 0}
      fresh == eligible \ ride[r].foundDrivers
  IN  IF nearby = {}
      THEN [found |-> ride[r].foundDrivers,
            map |-> rideDriverBroadcastMap,
            sent |-> sent, emitted |-> {}, skipped |-> {}]
      ELSE [found |-> ride[r].foundDrivers \cup fresh,
            map |-> [rideDriverBroadcastMap EXCEPT ![r] = @ \cup nearby],
            sent |-> [sent EXCEPT ![r].request =
                        @ \cup (fresh \cap driverSockets)],
            emitted |-> fresh \cap driverSockets,
            skipped |-> (eligible \cap ride[r].foundDrivers) \cap driverSockets]

\* the bookkeeping of one broadcastRide call b for ride r
countOffers(r, b) ==
  [sockHist EXCEPT
     !.offers = [p \in SockPairs |->
        IF p[2] = r /\ p[1] \in b.emitted THEN @[p] + 1 ELSE @[p]],
     !.skipped = @ \cup {p \in SockPairs : p[2] = r /\ p[1] \in b.skipped}]

\* the rest of rider:requestRide: the first broadcastRide, startTimer,
\* rider:rideCreated
firstBroadcast(r) ==
  /\ ride[r].pc = "first"
  /\ LET b == broadcastRide(r, sockSent) IN
       /\ ride' = [ride EXCEPT ![r] = [@ EXCEPT !.pc = "wait", !.foundDrivers = b.found]]
       /\ rideDriverBroadcastMap' = b.map
       /\ sockSent' = [b.sent EXCEPT ![r].rider = @ \cup {"rider:rideCreated"}]
       /\ sockHist' = countOffers(r, b)
  /\ searchTimerByRide' = searchTimerByRide \cup {r}
  /\ UNCHANGED <<rideStatus, geoIndex, driverSockets, rideToRider,
                 driverActiveRide, sockAccept, sockMaxRadius>>
  /\ UNCHANGED <<engineVars, memVars, xpVars, svcVars>>

\* clearTimeout(searchTimerByRide.get(rideId)): a timer that has not fired
\* yet never fires; a callback that is already running is not affected
clearTimeout(r) ==
  IF r \in searchTimerByRide /\ ride[r].pc = "wait"
  THEN [ride[r] EXCEPT !.pc = "stopped"]
  ELSE ride[r]

\* the timer set by startTimer fires: the callback calls getRideStatus; a
\* behaviour holds at most n firings per ride
timerFireUpTo(r, n) ==
  /\ ride[r].pc = "wait"
  /\ ride[r].rounds < n
  /\ ride' = [ride EXCEPT ![r] = [@ EXCEPT !.pc = "status", !.rounds = @ + 1]]
  /\ UNCHANGED <<rideStatus, geoIndex, driverSockets, rideToRider,
                 rideDriverBroadcastMap, driverActiveRide, searchTimerByRide,
                 sockAccept, sockSent, sockMaxRadius, sockHist>>
  /\ UNCHANGED <<engineVars, memVars, xpVars, svcVars>>

timerFire(r) == timerFireUpTo(r, MaxRounds)

\* the callback after getRideStatus: stop, give up with rider:noDrivers, or
\* widen the radius and call broadcastRide (rideAccepted is never assigned)
timerStatus(r) ==
  /\ ride[r].pc = "status"
  /\ IF rideStatus[r] # "pending"
     THEN /\ ride' = [ride EXCEPT ![r].pc = "stopped"]
          /\ UNCHANGED <<rideToRider, rideDriverBroadcastMap,
                         searchTimerByRide, sockSent>>
     ELSE IF sockMaxRadius # NoMax /\ ride[r].radius >= sockMaxRadius
     THEN /\ ride' = [ride EXCEPT ![r].pc = "stopped"]
          /\ sockSent' = [sockSent EXCEPT ![r].rider =
                IF r \in rideToRider THEN @ \cup {"rider:noDrivers"} ELSE @]
          /\ rideToRider' = rideToRider \ {r}
          /\ rideDriverBroadcastMap' = [rideDriverBroadcastMap EXCEPT ![r] = {}]
          /\ searchTimerByRide' = searchTimerByRide \ {r}
     ELSE /\ ride' = [ride EXCEPT ![r] =
                [@ EXCEPT !.pc = "bcast",
                          !.radius = @ + SEARCH_RADIUS_INCREMENT]]
          /\ UNCHANGED <<rideToRider, rideDriverBroadcastMap,
                         searchTimerByRide, sockSent>>
  /\ UNCHANGED <<rideStatus, geoIndex, driverSockets, driverActiveRide,
                 sockAccept, sockMaxRadius, sockHist>>
  /\ UNCHANGED <<engineVars, memVars, xpVars, svcVars>>

\* the callback after broadcastRide's getNearbyDrivers: the offers, startTimer
timerBroadcast(r) ==
  /\ ride[r].pc = "bcast"
  /\ LET b == broadcastRide(r, sockSent) IN
       /\ ride' = [ride EXCEPT ![r] = [@ EXCEPT !.pc = "wait", !.foundDrivers = b.found]]
       /\ rideDriverBroadcastMap' = b.map
       /\ sockSent' = b.sent
       /\ sockHist' = countOffers(r, b)
  /\ searchTimerByRide' = searchTimerByRide \cup {r}
  /\ UNCHANGED <<rideStatus, geoIndex, driverSockets, rideToRider,
                 driverActiveRide, sockAccept, sockMaxRadius>>
  /\ UNCHANGED <<engineVars, memVars, xpVars, svcVars>>

\* rider:cancelRide (the rider has the ride id from rider:rideCreated)
cancelRide(r) ==
  /\ "rider:rideCreated" \in sockSent[r].rider
  /\ r \notin sockHist.cancelled
  /\ ride' = [ride EXCEPT ![r] = clearTimeout(r)]
  /\ searchTimerByRide' = searchTimerByRide \ {r}
  /\ sockSent' = [sockSent EXCEPT
        ![r].status = @ \cup (rideDriverBroadcastMap[r] \cap driverSockets),
        ![r].rider = @ \cup {"rider:cancelConfirmed"}]
  /\ rideDriverBroadcastMap' = [rideDriverBroadcastMap EXCEPT ![r] = {}]
  /\ rideToRider' = rideToRider \ {r}
  /\ sockHist' = [sockHist EXCEPT !.cancelled = @ \cup {r}]
  /\ UNCHANGED <<rideStatus, geoIndex, driverSockets, driverActiveRide,
                 sockAccept, sockMaxRadius>>
  /\ UNCHANGED <<engineVars, memVars, xpVars, svcVars>>

\* driver:acceptRide is received (the driver has the ride id from a
\* ride:request or ride:status event) and calls tryAcceptRide
acceptStart(p) ==
  /\ sockAccept[p].pc = "idle"
  /\ sockHist.accepts < MaxSockAccepts
  /\ p[1] \in sockSent[p[2]].request \cup sockSent[p[2]].status
  /\ sockAccept' = [sockAccept EXCEPT ![p] =
        [pc |-> "eval", accepted |-> FALSE, late |-> p[2] \in sockHist.cancelled]]
  /\ sockHist' = [sockHist EXCEPT !.accepts = @ + 1,
                                  !.tried[p[2]] = @ \cup {p[1]}]
  /\ UNCHANGED <<rideStatus, geoIndex, driverSockets, rideToRider,
                 rideDriverBroadcastMap, driverActiveRide, searchTimerByRide,
                 ride, sockSent, sockMaxRadius>>
  /\ UNCHANGED <<engineVars, memVars, xpVars, svcVars>>

\* a tryAcceptRide whose script sets the key without testing it
tryAcceptRideNoTest(p) ==
  /\ sockAccept[p].pc = "eval"
  /\ rideStatus' = [rideStatus EXCEPT ![p[2]] = p[1]]
  /\ sockAccept' = [sockAccept EXCEPT ![p] = [@ EXCEPT !.pc = "finish", !.accepted = TRUE]]
  /\ sockHist' = [sockHist EXCEPT !.won[p[2]] = @ \cup {p[1]}]
  /\ UNCHANGED <<geoIndex, driverSockets, rideToRider, rideDriverBroadcastMap,
                 driverActiveRide, searchTimerByRide, ride, sockSent,
                 sockMaxRadius>>
  /\ UNCHANGED <<engineVars, memVars, xpVars, svcVars>>

\* matchService.tryAcceptRide: the Lua script, run atomically by Redis; on 0
\* the handler emits ride:acceptResult failed and returns
tryAcceptRide(p) ==
  /\ sockAccept[p].pc = "eval"
  /\ IF rideStatus[p[2]] \in {"nil", "pending"}
     THEN /\ rideStatus' = [rideStatus EXCEPT ![p[2]] = p[1]]
          /\ sockAccept' = [sockAccept EXCEPT ![p] = [@ EXCEPT !.pc = "finish", !.accepted = TRUE]]
          /\ sockHist' = [sockHist EXCEPT !.won[p[2]] = @ \cup {p[1]}]
     ELSE /\ rideStatus' = rideStatus
          /\ sockAccept' = [sockAccept EXCEPT ![p] = IdleAccept]
          /\ sockHist' = [sockHist EXCEPT
                !.lateResult[p] = IF sockAccept[p].late THEN "failed" ELSE @,
                !.failed[p[2]] = @ \cup {p[1]}]
  /\ UNCHANGED <<geoIndex, driverSockets, rideToRider, rideDriverBroadcastMap,
                 driverActiveRide, searchTimerByRide, ride, sockSent,
                 sockMaxRadius>>
  /\ UNCHANGED <<engineVars, memVars, xpVars, svcVars>>

\* driver:acceptRide after tryAcceptRide returned true
acceptFinish(p) ==
  /\ sockAccept[p].pc = "finish"
  /\ driverActiveRide' = [driverActiveRide EXCEPT ![p[1]] = p[2]]
  /\ sockSent' = [sockSent EXCEPT
        ![p[2]].status = @ \cup (rideDriverBroadcastMap[p[2]] \cap driverSockets),
        ![p[2]].rider = IF p[2] \in rideToRider
                        THEN @ \cup {"rider:rideAccepted"} ELSE @]
  /\ rideToRider' = rideToRider \ {p[2]}
  /\ ride' = [ride EXCEPT ![p[2]] = clearTimeout(p[2])]
  /\ searchTimerByRide' = searchTimerByRide \ {p[2]}
  /\ rideDriverBroadcastMap' = [rideDriverBroadcastMap EXCEPT ![p[2]] = {}]
  /\ sockAccept' = [sockAccept EXCEPT ![p] = IdleAccept]
  /\ sockHist' = [sockHist EXCEPT !.lateResult[p] =
        IF sockAccept[p].late THEN "accepted" ELSE @]
  /\ UNCHANGED <<rideStatus, geoIndex, driverSockets, sockMaxRadius>>
  /\ UNCHANGED <<engineVars, memVars, xpVars, svcVars>>

\* ride:finish, sent by the driver for the ride it is entered for
rideFinish(d) ==
  /\ driverActiveRide[d] # 0
  /\ driverActiveRide' = [driverActiveRide EXCEPT ![d] = 0]
  /\ sockHist' = [sockHist EXCEPT
        !.finished = @ \cup {<<d, driverActiveRide[d]>>}]
  /\ UNCHANGED <<rideStatus, geoIndex, driverSockets, rideToRider,
                 rideDriverBroadcastMap, searchTimerByRide, ride, sockAccept,
                 sockSent, sockMaxRadius>>
  /\ UNCHANGED <<engineVars, memVars, xpVars, svcVars>>

\* disconnect of a driver's socket
driverDisconnect(d) ==
  /\ d \in driverSockets
  /\ driverSockets' = driverSockets \ {d}
  /\ LET r == driverActiveRide[d] IN
       IF r = 0
       THEN UNCHANGED <<rideToRider, rideDriverBroadcastMap, driverActiveRide,
                        searchTimerByRide, ride, sockSent>>
       ELSE /\ sockSent' = [sockSent EXCEPT ![r].rider =
                  IF r \in rideToRider
                  THEN @ \cup {"rider:driverUnavailable"} ELSE @]
            /\ driverActiveRide' = [driverActiveRide EXCEPT ![d] = 0]
            /\ rideDriverBroadcastMap' = [rideDriverBroadcastMap EXCEPT ![r] = {}]
            /\ ride' = [ride EXCEPT ![r] = clearTimeout(r)]
            /\ searchTimerByRide' = searchTimerByRide \ {r}
            /\ rideToRider' = rideToRider \ {r}
  /\ UNCHANGED <<rideStatus, geoIndex, sockAccept, sockMaxRadius, sockHist>>
  /\ UNCHANGED <<engineVars, memVars, xpVars, svcVars>>

\* disconnect of the socket of the rider of ride r
riderDisconnect(r) ==
  /\ r \in rideToRider
  /\ ride[r].pc # "first"
  /\ ride' = [ride EXCEPT ![r] = clearTimeout(r)]
  /\ searchTimerByRide' = searchTimerByRide \ {r}
  /\ rideDriverBroadcastMap' = [rideDriverBroadcastMap EXCEPT ![r] = {}]
  /\ rideToRider' = rideToRider \ {r}
  /\ UNCHANGED <<rideStatus, geoIndex, driverSockets, driverActiveRide,
                 sockAccept, sockSent, sockMaxRadius, sockHist>>
  /\ UNCHANGED <<engineVars, memVars, xpVars, svcVars>>

\* One ride: drivers come online, a rider requests ride 1, the search timer
\* runs, the rider cancels, drivers accept, finish and leave.
SockNext ==
  \/ \E d \in Drivers, km \in SockDistChoices :
        ride[1].pc = "none" /\ driverOnline(d, km)
  \/ \E d \in Drivers : driverOffline(d)
  \/ requestRide(1)
  \/ \E r \in SockRides : statusExpire(r)
  \/ \E r \in SockRides : firstBroadcast(r)
  \/ \E r \in SockRides : timerFire(r)
  \/ \E r \in SockRides : timerStatus(r)
  \/ \E r \in SockRides : timerBroadcast(r)
  \/ \E r \in SockRides : cancelRide(r)
  \/ \E p \in SockPairs : acceptStart(p)
  \/ \E p \in SockPairs : tryAcceptRide(p)
  \/ \E p \in SockPairs : acceptFinish(p)
  \/ \E d \in Drivers : rideFinish(d)
  \/ \E d \in Drivers : driverDisconnect(d)
  \/ \E r \in SockRides : riderDisconnect(r)

\* ------------------------------------------------------------------------
\* Part III: the in-memory RideService
\* ------------------------------------------------------------------------
MaxMemRides == 2
MaxMemCalls == 4      \* acceptRide, cancelRideRequest and completeRide calls
MemRides == 1..MaxMemRides

NoRideObj == [status |-> None, acceptedBy |-> None, cancelReason |-> None]

NoEvents == [request |-> {}, unavailable |-> {}, cancelled |-> {}]
MemPairs == Drivers \X MemRides

MemInit ==
  /\ rideObj = [r \in MemRides |-> NoRideObj]
  /\ rideRequests = {}
  /\ activeRides = {}
  /\ rideKey = [r \in MemRides |-> None]
  /\ rideTimers = {}
  /\ creating = {}
  /\ memHist = [calls |-> 0, lateFire |-> {}]
  /\ assignedDrivers = [r \in MemRides |-> {}]
  /\ onlineDrivers = {}
  /\ hdl = [offered |-> {}, accepting |-> {}, accepted |-> {},
            cancelling |-> {}, cancelled |-> {}]
  /\ hdlSent = [r \in MemRides |-> NoEvents]

\* createRideRequest up to its await: the object enters rideRequests as
\* pending and the setEx of its JSON is issued
createRideRequest(r) ==
  /\ rideObj[r].status = None
  /\ \A q \in MemRides : q < r => rideObj[q].status # None
  /\ rideObj' = [rideObj EXCEPT ![r] =
        [status |-> "pending", acceptedBy |-> None, cancelReason |-> None]]
  /\ rideRequests' = rideRequests \cup {r}
  /\ rideKey' = [rideKey EXCEPT ![r] = "pending"]
  /\ creating' = creating \cup {r}
  /\ UNCHANGED <<activeRides, rideTimers, memHist>>
  /\ UNCHANGED hdlVars
  /\ UNCHANGED <<engineVars, sockVars, xpVars, svcVars>>

\* createRideRequest after the setEx: setTimeout(cancelRideRequest, 60000)
armTimer(r) ==
  /\ r \in creating
  /\ creating' = creating \ {r}
  /\ rideTimers' = rideTimers \cup {r}
  /\ UNCHANGED <<rideObj, rideRequests, activeRides, rideKey, memHist>>
  /\ UNCHANGED hdlVars
  /\ UNCHANGED <<engineVars, sockVars, xpVars, svcVars>>

\* an acceptRide that does not delete the ride from rideRequests
acceptWithoutMove(r, d) ==
  IF r \in rideRequests /\ rideObj[r].status = "pending"
  THEN /\ rideObj' = [rideObj EXCEPT ![r] =
             [@ EXCEPT !.status = "accepted", !.acceptedBy = d]]
       /\ activeRides' = activeRides \cup {r}
       /\ rideRequests' = rideRequests
       /\ rideKey' = [rideKey EXCEPT ![r] = "accepted"]
  ELSE UNCHANGED <<rideObj, activeRides, rideRequests, rideKey>>

\* acceptRide: refused unless the ride is in rideRequests with status
\* pending; otherwise the object is moved to activeRides as accepted
acceptBody(r, d) ==
  IF r \in rideRequests /\ rideObj[r].status = "pending"
  THEN /\ rideObj' = [rideObj EXCEPT ![r] =
             [@ EXCEPT !.status = "accepted", !.acceptedBy = d]]
       /\ activeRides' = activeRides \cup {r}
       /\ rideRequests' = rideRequests \ {r}
       /\ rideKey' = [rideKey EXCEPT ![r] = "accepted"]
  ELSE UNCHANGED <<rideObj, activeRides, rideRequests, rideKey>>

\* acceptRide called on its own
acceptRide(r, d) ==
  /\ memHist.calls < MaxMemCalls
  /\ memHist' = [memHist EXCEPT !.calls = @ + 1]
  /\ acceptBody(r, d)
  /\ UNCHANGED <<rideTimers, creating>>
  /\ UNCHANGED hdlVars
  /\ UNCHANGED <<engineVars, sockVars, xpVars, svcVars>>

\* the body of cancelRideRequest for a ride found in rideRequests or in
\* activeRides: status cancelled, removed from both maps, setEx
cancelBody(r, reason) ==
  IF r \in rideRequests \cup activeRides
  THEN /\ rideObj' = [rideObj EXCEPT ![r] =
             [@ EXCEPT !.status = "cancelled", !.cancelReason = reason]]
       /\ rideRequests' = rideRequests \ {r}
       /\ activeRides' = activeRides \ {r}
       /\ rideKey' = [rideKey EXCEPT ![r] = "cancelled"]
  ELSE UNCHANGED <<rideObj, rideRequests, activeRides, rideKey>>

\* cancelRideRequest called with the default reason
cancelRideRequest(r) ==
  /\ memHist.calls < MaxMemCalls
  /\ rideObj[r].status # None
  /\ memHist' = [memHist EXCEPT !.calls = @ + 1]
  /\ cancelBody(r, "user_cancelled")
  /\ UNCHANGED <<rideTimers, creating>>
  /\ UNCHANGED hdlVars
  /\ UNCHANGED <<engineVars, sockVars, xpVars, svcVars>>

\* the timer of createRideRequest fires: cancelRideRequest(rideId, "timeout")
rideTimerFire(r) ==
  /\ r \in rideTimers
  /\ rideTimers' = rideTimers \ {r}
  /\ memHist' = [memHist EXCEPT !.lateFire =
        IF rideObj[r].status = "accepted" THEN @ \cup {r} ELSE @]
  /\ cancelBody(r, "timeout")
  /\ UNCHANGED creating
  /\ UNCHANGED hdlVars
  /\ UNCHANGED <<engineVars, sockVars, xpVars, svcVars>>

\* completeRide: only a ride in activeRides is completed
completeRide(r) ==
  /\ memHist.calls < MaxMemCalls
  /\ rideObj[r].status # None
  /\ memHist' = [memHist EXCEPT !.calls = @ + 1]
  /\ IF r \in activeRides
     THEN /\ rideObj' = [rideObj EXCEPT ![r].status = "completed"]
          /\ activeRides' = activeRides \ {r}
          /\ rideKey' = [rideKey EXCEPT ![r] = "completed"]
     ELSE UNCHANGED <<rideObj, activeRides, rideKey>>
  /\ UNCHANGED <<rideRequests, rideTimers, creating>>
  /\ UNCHANGED hdlVars
  /\ UNCHANGED <<engineVars, sockVars, xpVars, svcVars>>

MemNext ==
  \/ \E r \in MemRides : createRideRequest(r)
  \/ \E r \in MemRides : armTimer(r)
  \/ \E r \in MemRides, d \in Drivers : acceptRide(r, d)
  \/ \E r \in MemRides : cancelRideRequest(r)
  \/ \E r \in MemRides : rideTimerFire(r)
  \/ \E r \in MemRides : completeRide(r)

\* ------------------------------------------------------------------------
\* The SocketHandler class over the in-memory RideService and DriverService
\* ------------------------------------------------------------------------
\* hasDriverBeenAssigned: looks the ride up in this.rideRequests only
hasDriverBeenAssigned(r, d) == r \in rideRequests /\ d \in assignedDrivers[r]

\* driver:online: DriverService.addDriver stores the driver in onlineDrivers
hdlDriverOnline(d) ==
  /\ d \notin onlineDrivers
  /\ hdl.offered = {}
  /\ onlineDrivers' = onlineDrivers \cup {d}
  /\ UNCHANGED <<assignedDrivers, hdl, hdlSent>>
  /\ UNCHANGED <<rideObj, rideRequests, activeRides, rideKey, rideTimers,
                 creating, memHist>>
  /\ UNCHANGED <<engineVars, sockVars, xpVars, svcVars>>

\* rider:request after createRideRequest has returned and findNearbyDrivers
\* has answered: ride:request to the nearby drivers, addAssignedDriver for
\* each (which adds only while the ride is in rideRequests)
hdlOffer(r) ==
  /\ rideObj[r].status # None
  /\ r \notin creating
  /\ r \notin hdl.offered
  /\ hdl' = [hdl EXCEPT !.offered = @ \cup {r}]
  /\ hdlSent' = [hdlSent EXCEPT ![r].request = @ \cup onlineDrivers]
  /\ assignedDrivers' = [assignedDrivers EXCEPT ![r] =
        IF r \in rideRequests THEN @ \cup onlineDrivers ELSE @]
  /\ UNCHANGED onlineDrivers
  /\ UNCHANGED <<rideObj, rideRequests, activeRides, rideKey, rideTimers,
                 creating, memHist>>
  /\ UNCHANGED <<engineVars, sockVars, xpVars, svcVars>>

\* driver:accept up to the await inside acceptRide: getDriverBySocketId,
\* then the synchronous part of acceptRide
hdlAccept(p) ==
  /\ p[1] \in onlineDrivers
  /\ p[1] \in hdlSent[p[2]].request
  /\ memHist.calls < MaxMemCalls
  /\ memHist' = [memHist EXCEPT !.calls = @ + 1]
  /\ hdl' = [hdl EXCEPT !.accepting =
        IF p[2] \in rideRequests /\ rideObj[p[2]].status = "pending"
        THEN @ \cup {p} ELSE @]
  /\ acceptBody(p[2], p[1])
  /\ UNCHANGED <<assignedDrivers, onlineDrivers, hdlSent>>
  /\ UNCHANGED <<rideTimers, creating>>
  /\ UNCHANGED <<engineVars, sockVars, xpVars, svcVars>>

\* driver:accept after a successful acceptRide: ride:unavailable to every
\* other online driver for which hasDriverBeenAssigned answers true
hdlAcceptNotify(p) ==
  /\ p \in hdl.accepting
  /\ hdl' = [hdl EXCEPT !.accepting = @ \ {p}, !.accepted = @ \cup {p}]
  /\ hdlSent' = [hdlSent EXCEPT ![p[2]].unavailable =
        @ \cup {d \in onlineDrivers \ {p[1]} : hasDriverBeenAssigned(p[2], d)}]
  /\ UNCHANGED <<assignedDrivers, onlineDrivers>>
  /\ UNCHANGED <<rideObj, rideRequests, activeRides, rideKey, rideTimers,
                 creating, memHist>>
  /\ UNCHANGED <<engineVars, sockVars, xpVars, svcVars>>

\* ride:cancel up to the await inside cancelRideRequest
hdlCancel(r) ==
  /\ r \in hdl.offered
  /\ r \notin hdl.cancelling \cup hdl.cancelled
  /\ memHist.calls < MaxMemCalls
  /\ memHist' = [memHist EXCEPT !.calls = @ + 1]
  /\ hdl' = [hdl EXCEPT !.cancelling =
        IF r \in rideRequests \cup activeRides THEN @ \cup {r} ELSE @]
  /\ cancelBody(r, "user_cancelled")
  /\ UNCHANGED <<assignedDrivers, onlineDrivers, hdlSent>>
  /\ UNCHANGED <<rideTimers, creating>>
  /\ UNCHANGED <<engineVars, sockVars, xpVars, svcVars>>

\* ride:cancel after a successful cancelRideRequest: ride:cancelled to every
\* online driver for which hasDriverBeenAssigned answers true
hdlCancelNotify(r) ==
  /\ r \in hdl.cancelling
  /\ hdl' = [hdl EXCEPT !.cancelling = @ \ {r}, !.cancelled = @ \cup {r}]
  /\ hdlSent' = [hdlSent EXCEPT ![r].cancelled =
        @ \cup {d \in onlineDrivers : hasDriverBeenAssigned(r, d)}]
  /\ UNCHANGED <<assignedDrivers, onlineDrivers>>
  /\ UNCHANGED <<rideObj, rideRequests, activeRides, rideKey, rideTimers,
                 creating, memHist>>
  /\ UNCHANGED <<engineVars, sockVars, xpVars, svcVars>>

\* Drivers come online, riders request rides, drivers that were offered a
\* ride accept it, riders cancel, the auto-cancel timers fire.
HandlerNext ==
  \/ \E d \in Drivers : hdlDriverOnline(d)
  \/ \E r \in MemRides : createRideRequest(r)
  \/ \E r \in MemRides : armTimer(r)
  \/ \E r \in MemRides : hdlOffer(r)
  \/ \E p \in MemPairs : hdlAccept(p)
  \/ \E p \in MemPairs : hdlAcceptNotify(p)
  \/ \E r \in MemRides : hdlCancel(r)
  \/ \E r \in MemRides : hdlCancelNotify(r)
  \/ \E r \in MemRides : rideTimerFire(r)

\* ------------------------------------------------------------------------
\* Part IV: the search loop of findDriversWithExpansion under any
\* configuration (request radius, RADIUS_EXPANSION_STEP, MAX_RADIUS)
\* ------------------------------------------------------------------------
MaxStep == 3
RadiusChoices == {3, 5, 14, 15, 20}
StepChoices == 1..MaxStep
MaxRadiusChoices == {15, 20, 50}

NoLoop == [pc |-> "idle", cur |-> 0, attempt |-> 0, step |-> 0, max |-> 0,
           first |-> 0, radii |-> <<>>, reported |-> 0]

\* the loop is entered: currentRadius = rideRequest.radius, attempt = 1
XpInit ==
  \E r \in RadiusChoices, st \in StepChoices, mx \in MaxRadiusChoices :
    /\ r <= mx
    /\ xp = [pc |-> "loop", cur |-> r, attempt |-> 1, step |-> st, max |-> mx,
             first |-> r, radii |-> <<>>, reported |-> 0]

\* one iteration in which findAvailableDrivers returns no driver:
\* search_expansion is emitted, the radius is expanded if allowed, attempt++
xpSearchNone ==
  /\ xp.pc = "loop"
  /\ loopContinues(xp.attempt, xp.cur, xp.max)
  /\ xp' = [xp EXCEPT
        !.radii = Append(@, xp.cur),
        !.cur = IF mayExpand(xp.attempt, xp.cur, xp.max)
                THEN expandedRadius(xp.cur, xp.step, xp.max) ELSE @,
        !.attempt = @ + 1]
  /\ UNCHANGED <<engineVars, sockVars, memVars, svcVars>>

\* one iteration in which findAvailableDrivers returns drivers: the loop
\* returns through broadcastToFoundDrivers with the current radius
xpSearchFound ==
  /\ xp.pc = "loop"
  /\ loopContinues(xp.attempt, xp.cur, xp.max)
  /\ xp' = [xp EXCEPT !.radii = Append(@, xp.cur), !.pc = "drivers_found",
                      !.reported = xp.cur]
  /\ UNCHANGED <<engineVars, sockVars, memVars, svcVars>>

\* the loop has ended without drivers: status no_drivers_found, the event
\* no_drivers_found reports searchRadius = currentRadius
xpGiveUp ==
  /\ xp.pc = "loop"
  /\ ~loopContinues(xp.attempt, xp.cur, xp.max)
  /\ xp' = [xp EXCEPT !.pc = "no_drivers_found", !.reported = xp.cur]
  /\ UNCHANGED <<engineVars, sockVars, memVars, svcVars>>

XpNext == xpSearchNone \/ xpSearchFound \/ xpGiveUp

\* ========================================================================
\* Part V: service operations of the Redis-backed engine
\* (RideService.completeRide, RideService.cancelRide,
\* DriverService.removeDriver)
\* ========================================================================
MaxCompletes == 1     \* completeRide calls in a behaviour
MaxCancelRides == 1   \* cancelRide calls in a behaviour
MaxRemoves == 2       \* removeDriver calls in a behaviour
MaxSweeps == 1        \* runs of cleanupOldRequests in a behaviour

IdleCmpl == [pc |-> "idle", req |-> 0, driver |-> None, user |-> None,
             found |-> FALSE, loc |-> EmptyReq]
IdleCncl == [pc |-> "idle", req |-> 0, loc |-> EmptyReq]
IdleSweep == [pc |-> "idle", todo |-> {}, runs |-> 0]
NoCall == [req |-> 0, driver |-> None, user |-> None, result |-> None]

SvcInit ==
  /\ cmpl = IdleCmpl
  /\ cncl = IdleCncl
  /\ rem = [d \in Drivers |-> "idle"]
  /\ svcHist = [completes |-> 0, cancelRides |-> 0, removes |-> 0,
                completed |-> NoCall, cancelled |-> NoCall,
                removed |-> {}]
  /\ aged = {}
  /\ sweep = IdleSweep

\* completeRide(requestId, driverId, userId): getRideRequest and the local
\* status assignment, made whenever the request exists
CompleteRead(r, d, u) ==
  /\ cmpl.pc = "idle"
  /\ svcHist.completes < MaxCompletes
  /\ cmpl' = [pc |-> "exec", req |-> r, driver |-> d, user |-> u,
              found |-> requests[r].status # "absent",
              loc |-> IF requests[r].status = "absent" THEN EmptyReq
                      ELSE [requests[r] EXCEPT !.status = "completed"]]
  /\ svcHist' = [svcHist EXCEPT !.completes = @ + 1, !.completed = NoCall]
  /\ UNCHANGED <<cncl, rem>>
  /\ UNCHANGED <<engineVars, sockVars, memVars, xpVars, sweepVars>>

\* completeRide: the multi (hset ride:requests when the request was found,
\* hdel users:active_requests userId, hdel drivers:active_rides driverId)
CompleteExec ==
  /\ cmpl.pc = "exec"
  /\ requests' = IF cmpl.found THEN [requests EXCEPT ![cmpl.req] = cmpl.loc]
                 ELSE requests
  /\ userActive' = [userActive EXCEPT ![cmpl.user] = 0]
  /\ driverActive' = [driverActive EXCEPT ![cmpl.driver] = 0]
  /\ cmpl' = [cmpl EXCEPT !.pc = "status"]
  /\ UNCHANGED <<redisLock, processingLocks, profiles, dist, nextId, find, resp,
                 tmo, cancel, post, riderEvents, offered, drvCancelled, outcome,
                 hist>>
  /\ UNCHANGED <<cncl, rem, svcHist>>
  /\ UNCHANGED <<sockVars, memVars, xpVars, sweepVars>>

\* completeRide: driverService.updateDriverStatus(driverId, "available"),
\* which throws for a driver without a profile; the call returns
CompleteStatus ==
  /\ cmpl.pc = "status"
  /\ profiles' = [profiles EXCEPT ![cmpl.driver] =
        IF @ = None THEN None ELSE "available"]
  /\ svcHist' = [svcHist EXCEPT !.completed =
        [req |-> cmpl.req, driver |-> cmpl.driver, user |-> cmpl.user,
         result |-> IF profiles[cmpl.driver] = None THEN "error" ELSE "success"]]
  /\ cmpl' = IdleCmpl
  /\ UNCHANGED <<requests, userActive, driverActive, redisLock, processingLocks,
                 dist, nextId, find, resp, tmo, cancel, post, riderEvents,
                 offered, drvCancelled, outcome, hist>>
  /\ UNCHANGED <<cncl, rem>>
  /\ UNCHANGED <<sockVars, memVars, xpVars, sweepVars>>

engineCompleteRide ==
  \/ \E r \in ReqIds, d \in Drivers, u \in Users : CompleteRead(r, d, u)
  \/ CompleteExec
  \/ CompleteStatus

\* cancelRide(requestId): getRideRequest, "Ride not found" or the local
\* status assignment
CancelRideRead(r) ==
  /\ cncl.pc = "idle"
  /\ svcHist.cancelRides < MaxCancelRides
  /\ IF requests[r].status = "absent"
     THEN /\ cncl' = cncl
          /\ svcHist' = [svcHist EXCEPT !.cancelRides = @ + 1,
                 !.cancelled = [NoCall EXCEPT !.req = r, !.result = "not_found"]]
     ELSE /\ cncl' = [pc |-> "exec", req |-> r,
                      loc |-> [requests[r] EXCEPT !.status = "cancelled"]]
          /\ svcHist' = [svcHist EXCEPT !.cancelRides = @ + 1,
                                        !.cancelled = NoCall]
  /\ UNCHANGED <<cmpl, rem>>
  /\ UNCHANGED <<engineVars, sockVars, memVars, xpVars, sweepVars>>

\* cancelRide: the multi (hset ride:requests, hdel users:active_requests of
\* the request's rider, hdel drivers:active_rides of acceptedBy if set)
CancelRideExec ==
  /\ cncl.pc = "exec"
  /\ requests' = [requests EXCEPT ![cncl.req] = cncl.loc]
  /\ userActive' = [userActive EXCEPT ![cncl.loc.userId] = 0]
  /\ driverActive' = [d \in Drivers |->
        IF d = cncl.loc.acceptedBy THEN 0 ELSE driverActive[d]]
  /\ IF cncl.loc.acceptedBy # None
     THEN /\ cncl' = [cncl EXCEPT !.pc = "status"]
          /\ svcHist' = svcHist
     ELSE /\ cncl' = IdleCncl
          /\ svcHist' = [svcHist EXCEPT !.cancelled =
                 [NoCall EXCEPT !.req = cncl.req, !.result = "success"]]
  /\ UNCHANGED <<redisLock, processingLocks, profiles, dist, nextId, find, resp,
                 tmo, cancel, post, riderEvents, offered, drvCancelled, outcome,
                 hist>>
  /\ UNCHANGED <<cmpl, rem>>
  /\ UNCHANGED <<sockVars, memVars, xpVars, sweepVars>>

\* cancelRide: driverService.updateDriverStatus(acceptedBy, "available")
CancelRideStatus ==
  /\ cncl.pc = "status"
  /\ profiles' = [profiles EXCEPT ![cncl.loc.acceptedBy] =
        IF @ = None THEN None ELSE "available"]
  /\ svcHist' = [svcHist EXCEPT !.cancelled =
        [NoCall EXCEPT !.req = cncl.req, !.driver = cncl.loc.acceptedBy,
           !.result = IF profiles[cncl.loc.acceptedBy] = None
                      THEN "error" ELSE "success"]]
  /\ cncl' = IdleCncl
  /\ UNCHANGED <<requests, userActive, driverActive, redisLock, processingLocks,
                 dist, nextId, find, resp, tmo, cancel, post, riderEvents,
                 offered, drvCancelled, outcome, hist>>
  /\ UNCHANGED <<cmpl, rem>>
  /\ UNCHANGED <<sockVars, memVars, xpVars, sweepVars>>

engineCancelRide ==
  \/ \E r \in ReqIds : CancelRideRead(r)
  \/ CancelRideExec
  \/ CancelRideStatus

\* DriverService.removeDriver(driverId), called by handleDisconnect and by
\* cleanupOfflineDrivers: driverProfiles.delete, hdel drivers:profiles,
\* srem of the active drivers
RemoveProfile(d) ==
  /\ rem[d] = "idle"
  /\ profiles[d] # None
  /\ svcHist.removes < MaxRemoves
  /\ profiles' = [profiles EXCEPT ![d] = None]
  /\ rem' = [rem EXCEPT ![d] = "geo"]
  /\ svcHist' = [svcHist EXCEPT !.removes = @ + 1, !.removed = @ \ {d}]
  /\ UNCHANGED <<requests, userActive, driverActive, redisLock, processingLocks,
                 dist, nextId, find, resp, tmo, cancel, post, riderEvents,
                 offered, drvCancelled, outcome, hist>>
  /\ UNCHANGED <<cmpl, cncl>>
  /\ UNCHANGED <<sockVars, memVars, xpVars, sweepVars>>

\* GeoService.removeDriver: zrem of the geo index and hdel of the driver
\* data; removeDriver returns
RemoveGeo(d) ==
  /\ rem[d] = "geo"
  /\ dist' = [dist EXCEPT ![d] = 0]
  /\ rem' = [rem EXCEPT ![d] = "idle"]
  /\ svcHist' = [svcHist EXCEPT !.removed = @ \cup {d}]
  /\ UNCHANGED <<requests, userActive, driverActive, redisLock, processingLocks,
                 profiles, nextId, find, resp, tmo, cancel, post, riderEvents,
                 offered, drvCancelled, outcome, hist>>
  /\ UNCHANGED <<cmpl, cncl>>
  /\ UNCHANGED <<sockVars, memVars, xpVars, sweepVars>>

removeDriver(d) == RemoveProfile(d) \/ RemoveGeo(d)

\* time passes: the expiresAt of request r, set at creation to now +
\* DRIVER_RESPONSE_TIMEOUT, comes to lie more than 10 minutes in the past.
\* By then the search that created r has ended, the response timer, due at
\* expiresAt, has fired and its handler has run, and the responses received
\* until then have been processed.
Age(r) ==
  /\ requests[r].status # "absent"
  /\ r \notin aged
  /\ \A i \in FindIds : find[i].req = r => find[i].pc = "done"
  /\ tmo[r].pc \in {"idle", "done"}
  /\ \A d \in Drivers : resp[<<d, r>>].pc = "idle"
  /\ aged' = aged \cup {r}
  /\ UNCHANGED sweep
  /\ UNCHANGED <<cmpl, cncl, rem, svcHist>>
  /\ UNCHANGED <<engineVars, sockVars, memVars, xpVars>>

\* cleanupOldRequests, run every 10 minutes by startCleanupTasks: hgetall
\* ride:requests and the test now - expiresAt > 10 min on every entry read
SweepStart ==
  /\ sweep.pc = "idle"
  /\ sweep.runs < MaxSweeps
  /\ sweep' = [pc |-> "loop", runs |-> sweep.runs + 1,
               todo |-> {r \in ReqIds : requests[r].status # "absent" /\ r \in aged}]
  /\ UNCHANGED aged
  /\ UNCHANGED <<cmpl, cncl, rem, svcHist>>
  /\ UNCHANGED <<engineVars, sockVars, memVars, xpVars>>

\* cleanupOldRequests: hdel ride:requests for one entry that passed the test
SweepDel(r) ==
  /\ sweep.pc = "loop"
  /\ r \in sweep.todo
  /\ requests' = [requests EXCEPT ![r] = EmptyReq]
  /\ sweep' = [sweep EXCEPT !.todo = @ \ {r}]
  /\ aged' = aged \ {r}
  /\ UNCHANGED <<userActive, driverActive, redisLock, processingLocks, profiles,
                 dist, nextId, find, resp, tmo, cancel, post, riderEvents,
                 offered, drvCancelled, outcome, hist>>
  /\ UNCHANGED <<cmpl, cncl, rem, svcHist>>
  /\ UNCHANGED <<sockVars, memVars, xpVars>>

\* cleanupOldRequests: the loop has passed every entry; the run ends
SweepEnd ==
  /\ sweep.pc = "loop"
  /\ sweep.todo = {}
  /\ sweep' = [sweep EXCEPT !.pc = "idle"]
  /\ UNCHANGED aged
  /\ UNCHANGED <<cmpl, cncl, rem, svcHist>>
  /\ UNCHANGED <<engineVars, sockVars, memVars, xpVars>>

cleanupOldRequests ==
  \/ SweepStart
  \/ \E r \in ReqIds : SweepDel(r)
  \/ SweepEnd

\* ------------------------------------------------------------------------
\* Specifications
\* ------------------------------------------------------------------------
vars == <<engineVars, sockVars, memVars, xpVars, svcVars>>

\* the engine of Part I, the other parts idle in their initial states
Init == EngineInit /\ SockInit /\ MemInit /\ SvcInit /\ xp = NoLoop /\ sockMaxRadius = NoMax

\* the in-memory RideService, the other parts idle
InitMem == EngineInit /\ SockInit /\ MemInit /\ SvcInit /\ xp = NoLoop /\ sockMaxRadius = NoMax

\* the search loop alone, the other parts idle
InitExpand == EngineInit /\ SockInit /\ MemInit /\ SvcInit /\ XpInit /\ sockMaxRadius = NoMax

SpecExpand == InitExpand /\ [][XpNext]_vars

SpecMem == InitMem /\ [][MemNext]_vars

SpecHandler == InitMem /\ [][HandlerNext]_vars

\* findAndBroadcastToDrivers for a rider with no users:active_requests entry:
\* the steps that follow a null getUserActiveRequest
FindFresh(i) ==
  \/ FindCreate(i)
  \/ FindSearch(i)
  \/ FindExpandWrite(i)
  \/ FindNoDriversCleanup(i)
  \/ FindNoDriversWrite(i)
  \/ broadcastToFoundDrivers(i)

\* One ride request, drivers racing: the drivers register, rider u1 sends
\* find_nearby_drivers, the drivers accept or reject, the distributed lock
\* may expire under its holder.
Next ==
  \/ \E d \in Drivers, km \in DistChoices :
        find[1].pc = "idle" /\ registerDriver(d, km)
  \/ FindStart(1, "u1")
  \/ FindFresh(1)
  \/ \E p \in Pairs : handleDriverResponse(p)
  \/ \E r \in ReqIds : LockExpire(r)
  \/ \E c \in post : PostAcceptCleanup(c)

Spec == Init /\ [][Next]_vars

\* One ride request, rider cancelling: the drivers register, rider u1 sends
\* find_nearby_drivers, drivers accept, the response timer fires, a rider
\* sends cancel_ride_request.
AcceptOnly(p) ==
  \/ hist.responses < MaxAccepts /\ RespStartAccept(p)
  \/ RespBusyRead(p)
  \/ RespStaleHdel(p)
  \/ RespLockCheck(p)
  \/ RespRedisLock(p)
  \/ RespRead(p)
  \/ RespExec(p)
  \/ RespUnlock(p)

NextCancel ==
  \/ \E d \in Drivers, km \in DistChoices :
        find[1].pc = "idle" /\ registerDriver(d, km)
  \/ FindStart(1, "u1")
  \/ FindFresh(1)
  \/ \E p \in Pairs : AcceptOnly(p)
  \/ \E c \in post : PostAcceptCleanup(c)
  \/ \E r \in ReqIds : handleRideTimeout(r)
  \/ \E r \in ReqIds : handleCancelRideRequest(r)

SpecCancel == Init /\ [][NextCancel]_vars

\* Two ride requests, one driver: driver d1 registers, riders send two
\* find_nearby_drivers events, d1 accepts, the response timers fire.
NextTwo ==
  \/ \E km \in DistChoices : find[1].pc = "idle" /\ registerDriver("d1", km)
  \/ \E i \in FindIds, u \in Users : FindStart(i, u)
  \/ \E i \in FindIds : FindStep(i)
  \/ \E r \in ReqIds : AcceptOnly(<<"d1", r>>)
  \/ \E c \in post : PostAcceptCleanup(c)
  \/ \E r \in ReqIds : handleRideTimeout(r)

SpecTwo == Init /\ [][NextTwo]_vars

\* Two ride requests, one driver answering up to MaxResponses times: driver
\* d1 registers, riders u1 and u2 send find_nearby_drivers, d1 accepts, the
\* response timers fire.
AcceptStep(p) ==
  \/ RespStartAccept(p)
  \/ RespBusyRead(p)
  \/ RespStaleHdel(p)
  \/ RespLockCheck(p)
  \/ RespRedisLock(p)
  \/ RespRead(p)
  \/ RespExec(p)
  \/ RespUnlock(p)

NextStale ==
  \/ \E km \in DistChoices : find[1].pc = "idle" /\ registerDriver("d1", km)
  \/ FindStart(1, "u1")
  \/ FindStart(2, "u2")
  \/ \E i \in FindIds : FindFresh(i)
  \/ \E r \in ReqIds : AcceptStep(<<"d1", r>>)
  \/ \E c \in post : PostAcceptCleanup(c)
  \/ \E r \in ReqIds : handleRideTimeout(r)

SpecStale == Init /\ [][NextStale]_vars

\* One rider, one driver, Redis reads that fail: driver d1 registers, rider
\* u1 sends find_nearby_drivers events, d1 accepts; the reads of
\* getUserActiveRequest, findAvailableDrivers and getDriverActiveRide may throw.
NextFault ==
  \/ \E km \in DistChoices : find[1].pc = "idle" /\ registerDriver("d1", km)
  \/ \E i \in FindIds : FindStart(i, "u1")
  \/ \E i \in FindIds : FindStartFault(i, "u1")
  \/ \E i \in FindIds : FindStep(i)
  \/ \E i \in FindIds : FindSearchFault(i)
  \/ \E r \in ReqIds : AcceptOnly(<<"d1", r>>)
  \/ \E r \in ReqIds : hist.responses < MaxAccepts /\ RespStartAcceptFault(<<"d1", r>>)
  \/ \E c \in post : PostAcceptCleanup(c)

SpecFault == Init /\ [][NextFault]_vars

\* The socket module, the engine of Part I idle in its initial state
InitSock == EngineInit /\ SockInit /\ MemInit /\ SvcInit /\ xp = NoLoop

SpecSock == InitSock /\ [][SockNext]_vars

\* Two rides in the socket module: drivers come online, riders request
\* rides 1 and 2, the search timers run, drivers accept and finish.
SockNextTwo ==
  \/ \E d \in Drivers, km \in SockDistChoices :
        ride[1].pc = "none" /\ driverOnline(d, km)
  \/ \E r \in SockRides : requestRide(r)
  \/ \E r \in SockRides : firstBroadcast(r)
  \/ \E r \in SockRides : timerFire(r)
  \/ \E r \in SockRides : timerStatus(r)
  \/ \E r \in SockRides : timerBroadcast(r)
  \/ \E p \in SockPairs : acceptStart(p)
  \/ \E p \in SockPairs : tryAcceptRide(p)
  \/ \E p \in SockPairs : acceptFinish(p)
  \/ \E d \in Drivers : rideFinish(d)

SpecSockTwo == InitSock /\ [][SockNextTwo]_vars

\* One ride request, drivers rejecting: the drivers register, rider u1 sends
\* find_nearby_drivers, the drivers send reject responses, also repeatedly.
RejectOnly(p) ==
  \/ RespStartReject(p)
  \/ RespRedisLock(p)
  \/ RespRead(p)
  \/ RespRejectWrite(p)
  \/ RespRejectCleanup(p)
  \/ RespRejectWrite2(p)
  \/ RespUnlock(p)

NextReject ==
  \/ \E d \in Drivers, km \in DistChoices :
        find[1].pc = "idle" /\ registerDriver(d, km)
  \/ FindStart(1, "u1")
  \/ FindFresh(1)
  \/ \E p \in Pairs : RejectOnly(p)

SpecReject == Init /\ [][NextReject]_vars

\* One ride request, drivers accepting and changing their status: the
\* drivers register, rider u1 sends find_nearby_drivers, drivers accept, the
\* post-acceptance cleanup runs, drivers send driver_status_update.
NextStatus ==
  \/ \E d \in Drivers, km \in DistChoices :
        find[1].pc = "idle" /\ registerDriver(d, km)
  \/ \E d \in Drivers, st \in {"available", "busy", "offline"} :
        handleDriverStatusUpdate(d, st)
  \/ FindStart(1, "u1")
  \/ FindFresh(1)
  \/ \E p \in Pairs : AcceptOnly(p)
  \/ \E c \in post : PostAcceptCleanup(c)

SpecStatus == Init /\ [][NextStatus]_vars

\* The ride offers of both modules: in the engine the drivers register and
\* rider u1's search runs up to its broadcast; in the socket module drivers
\* go online and offline, a rider requests ride 1 and the search timer runs
\* its rounds.
NextOffers ==
  \/ \E d \in Drivers, km \in DistChoices :
        find[1].pc = "idle" /\ registerDriver(d, km)
  \/ FindStart(1, "u1")
  \/ FindFresh(1)
  \/ \E d \in Drivers, km \in SockDistChoices : driverOnline(d, km)
  \/ \E d \in Drivers : driverOffline(d)
  \/ requestRide(1)
  \/ \E r \in SockRides : firstBroadcast(r)
  \/ \E r \in SockRides : timerFire(r)
  \/ \E r \in SockRides : timerStatus(r)
  \/ \E r \in SockRides : timerBroadcast(r)

SpecOffers == InitSock /\ [][NextOffers]_vars

\* The expanding search of the socket module on its own: drivers come
\* online, a rider requests ride 1, the search timer runs until the callback
\* stops it, the status key may expire, the rider may cancel.
NextSockSearch ==
  \/ \E d \in Drivers, km \in SockDistChoices :
        ride[1].pc = "none" /\ driverOnline(d, km)
  \/ requestRide(1)
  \/ statusExpire(1)
  \/ firstBroadcast(1)
  \/ timerFireUpTo(1, MaxSearchRounds)
  \/ timerStatus(1)
  \/ timerBroadcast(1)
  \/ cancelRide(1)

SpecSockSearch == InitSock /\ [][NextSockSearch]_vars

\* One ride request and its completion: the drivers register, rider u1 sends
\* find_nearby_drivers, drivers accept, completeRide is called for u1.
NextComplete ==
  \/ \E d \in Drivers, km \in DistChoices :
        find[1].pc = "idle" /\ registerDriver(d, km)
  \/ FindStart(1, "u1")
  \/ FindFresh(1)
  \/ \E p \in Pairs : AcceptOnly(p)
  \/ \E c \in post : PostAcceptCleanup(c)
  \/ \E r \in ReqIds, d \in Drivers : CompleteRead(r, d, "u1")
  \/ CompleteExec
  \/ CompleteStatus

SpecComplete == Init /\ [][NextComplete]_vars


\* One ride request, drivers leaving: the drivers register, rider u1 sends
\* find_nearby_drivers, drivers accept, and drivers are removed (their socket
\* disconnects or the sweep of offline drivers finds them stale).
NextRemove ==
  \/ \E d \in Drivers, km \in DistChoices :
        find[1].pc = "idle" /\ registerDriver(d, km)
  \/ FindStart(1, "u1")
  \/ FindFresh(1)
  \/ \E p \in Pairs : AcceptOnly(p)
  \/ \E c \in post : PostAcceptCleanup(c)
  \/ \E d \in Drivers : removeDriver(d)

SpecRemove == Init /\ [][NextRemove]_vars


\* One ride request to its end: the drivers register, rider u1 sends
\* find_nearby_drivers, drivers accept or reject, the response timer fires,
\* a rider sends cancel_ride_request.  The steps that the program takes by
\* itself (a handler resuming after an await, a timer or setImmediate
\* callback running) are taken eventually; the events sent by clients are not.
\* (the distributed lock does not expire here, so the "race condition
\* detected" branch is not taken)
RespStep(p) ==
  \/ RespBusyRead(p)
  \/ RespStaleHdel(p)
  \/ RespLockCheck(p)
  \/ RespRedisLock(p)
  \/ RespRead(p)
  \/ RespExec(p)
  \/ RespRejectWrite(p)
  \/ RespRejectCleanup(p)
  \/ RespRejectWrite2(p)
  \/ RespUnlock(p)

ProgramStep ==
  \/ FindFresh(1)
  \/ \E p \in Pairs : RespStep(p)
  \/ \E c \in post : PostAcceptCleanup(c)
  \/ \E r \in ReqIds : handleRideTimeout(r)
  \/ \E r \in ReqIds : CancelWrite(r)

NextLive ==
  \/ \E d \in Drivers, km \in DistChoices :
        find[1].pc = "idle" /\ registerDriver(d, km)
  \/ FindStart(1, "u1")
  \/ FindFresh(1)
  \/ \E p \in Pairs : hist.responses < MaxAccepts /\ RespStartAccept(p)
  \/ \E p \in Pairs : hist.responses < MaxAccepts /\ RespStartReject(p)
  \/ \E p \in Pairs : RespStep(p)
  \/ \E c \in post : PostAcceptCleanup(c)
  \/ \E r \in ReqIds : handleRideTimeout(r)
  \/ \E r \in ReqIds : handleCancelRideRequest(r)

SpecLive == Init /\ [][NextLive]_vars /\ WF_vars(ProgramStep)


\* One ride request, drivers accepting, nothing else: the drivers register,
\* rider u1 sends find_nearby_drivers, drivers send accepts, the
\* post-acceptance cleanup runs.  The lock does not expire, no timer fires
\* (the responses arrive within DRIVER_RESPONSE_TIMEOUT), nobody cancels.
\* Handlers resume after their awaits and setImmediate callbacks run.
WinStep ==
  \/ FindFresh(1)
  \/ \E p \in Pairs :
        \/ RespBusyRead(p)
        \/ RespStaleHdel(p)
        \/ RespLockCheck(p)
        \/ RespRedisLock(p)
        \/ RespRead(p)
        \/ RespExec(p)
        \/ RespUnlock(p)
  \/ \E c \in post : PostAcceptCleanup(c)

NextWin ==
  \/ \E d \in Drivers, km \in DistChoices :
        find[1].pc = "idle" /\ registerDriver(d, km)
  \/ FindStart(1, "u1")
  \/ FindFresh(1)
  \/ \E p \in Pairs : AcceptOnly(p)
  \/ \E c \in post : PostAcceptCleanup(c)

SpecWin == Init /\ [][NextWin]_vars /\ WF_vars(WinStep)


\* One ride request and a request to expand its search: the drivers
\* register, rider u1 sends find_nearby_drivers, the response timer fires, a
\* rider cancels, and a rider sends expand_search_radius.
NextExpandSearch ==
  \/ \E d \in Drivers, km \in DistChoices :
        find[1].pc = "idle" /\ registerDriver(d, km)
  \/ FindStart(1, "u1")
  \/ FindFresh(1)
  \/ \E r \in ReqIds : handleRideTimeout(r)
  \/ \E r \in ReqIds : handleCancelRideRequest(r)
  \/ \E u \in Users, r \in ReqIds : ExpandRead(2, u, r)
  \/ ExpandStart(2)
  \/ FindStep(2)

SpecExpandSearch == Init /\ [][NextExpandSearch]_vars


\* One ride request growing old: the drivers register, rider u1 sends
\* find_nearby_drivers, drivers accept, the response timer fires, time
\* passes and the periodic sweep of old requests runs.
NextSweep ==
  \/ \E d \in Drivers, km \in DistChoices :
        find[1].pc = "idle" /\ registerDriver(d, km)
  \/ FindStart(1, "u1")
  \/ FindFresh(1)
  \/ \E p \in Pairs : AcceptOnly(p)
  \/ \E c \in post : PostAcceptCleanup(c)
  \/ \E r \in ReqIds : handleRideTimeout(r)
  \/ \E r \in ReqIds : Age(r)
  \/ cleanupOldRequests

SpecSweep == Init /\ [][NextSweep]_vars


\* ------------------------------------------------------------------------
\* Properties of the Redis-backed engine
\* ------------------------------------------------------------------------
\* the registered drivers whose last accept of request r returned success,
\* status accepted
Winners(r) == {d \in Drivers : Connected(d) /\ outcome[<<d, r>>] = "accepted"}

\* the requests stored as accepted by driver d
AcceptedRides(d) ==
  {r \in ReqIds : requests[r].status = "accepted" /\ requests[r].acceptedBy = d}

TerminalStatuses ==
  {"accepted", "all_rejected", "no_drivers_found", "timeout", "cancelled_by_user"}

TerminalEventCount(r) ==
  riderEvents[r]["ride_accepted"] + riderEvents[r]["ride_all_rejected"]
  + riderEvents[r]["ride_request_timeout"] + riderEvents[r]["no_drivers_found"]
  + riderEvents[r]["ride_cancelled"]

\* C1: single winner.  With no cancel and no timeout involved (Spec has
\* neither), among the accept responses of distinct drivers to one request at
\* most one returns success with status accepted.
C1_SingleWinner ==
  \A r \in ReqIds : Cardinality(Winners(r)) <= 1

\* the requests of rider u whose stored status is searching or accepted
ActiveRequests(u) ==
  {r \in ReqIds : requests[r].userId = u /\ requests[r].status \in ActiveStatuses}

\* C2: no double-booking.  At every reachable state each driver is acceptedBy
\* of at most one request whose stored status is accepted (stated for the
\* states in which no rider has two active requests, so that the requests
\* come from different riders).
C2_NoDoubleBooking ==
  (\A u \in Users : Cardinality(ActiveRequests(u)) <= 1)
    => \A d \in Drivers : Cardinality(AcceptedRides(d)) <= 1

\* C3: terminal absorption.  Once the stored status of a request is terminal,
\* no step of any handler changes it.
C3_TerminalAbsorption ==
  [][\A r \in ReqIds :
       requests[r].status \in TerminalStatuses
         => requests'[r].status = requests[r].status]_vars

\* C4: a stored acceptedBy that holds a driver id is never replaced by a
\* different driver id; the "race condition detected" branch leaves the
\* first winner in the stored record.
C4_AcceptedByStable ==
  [][\A r \in ReqIds :
       (requests[r].acceptedBy # None /\ requests'[r].acceptedBy # None)
         => requests'[r].acceptedBy = requests[r].acceptedBy]_vars

\* C5: cancel against accept.  When a cancel that read the request as
\* searching comes to its write after an accept has committed (status
\* accepted, driver bound), the write is a no-op: the stored status stays
\* accepted.
C5_CancelLosesToAccept ==
  [][\A r \in ReqIds :
       (/\ cancel[r].pc = "write" /\ cancel'[r].pc = "idle"
        /\ cancel[r].seen = "searching"
        /\ requests[r].status = "accepted"
        /\ driverActive[requests[r].acceptedBy] = r)
         => requests'[r].status = "accepted"]_vars

\* C6: for every request at most one rider-facing terminal event is ever
\* emitted.
C6_OneTerminalEvent ==
  \A r \in ReqIds : TerminalEventCount(r) <= 1

\* C7: every rider has at most one request in a non-terminal status
\* (searching or accepted).
C7_OneActiveRequestPerRider ==
  \A u \in Users : Cardinality(ActiveRequests(u)) <= 1

\* C8: a find_nearby_drivers issued while the rider's first request is stored
\* as searching creates no new request record while that request is still
\* searching (it returns ACTIVE_REQUEST_EXISTS instead).
C8_SecondFindRejected ==
  [][\A i \in FindIds :
       (/\ find[i].prior # 0
        /\ requests[find[i].prior].status = "searching"
        /\ find[i].pc = "create")
         => find'[i].pc # "search"]_vars

\* C9: after a cancel of a searching request with two notified drivers and no
\* response so far has been written, the stored status is the cancelled one,
\* both notified drivers have been sent ride_request_cancelled, and every
\* later accept returns request_closed and binds no driver.
C9_CancelClosesRequest ==
  \A r \in ReqIds :
    hist.quietCancel[r] =>
      /\ requests[r].status = "cancelled_by_user"
      /\ requests[r].notifiedDrivers \subseteq drvCancelled[r]
      /\ \A d \in Drivers :
           /\ outcome[<<d, r>>] \in {None, "request_closed"}
           /\ driverActive[d] # r

\* ------------------------------------------------------------------------
\* Properties of the socket module
\* ------------------------------------------------------------------------
\* C10: after rider:cancelRide has been processed for a ride, no
\* driver:acceptRide received later for that ride succeeds: tryAcceptRide
\* returns false and the driver is not entered into driverActiveRide.
C10_NoAcceptAfterCancel ==
  \A p \in SockPairs : sockHist.lateResult[p] # "accepted"

\* ------------------------------------------------------------------------
\* Properties of the socket module, continued
\* ------------------------------------------------------------------------
\* C11: single winner in the socket module.  For every ride tryAcceptRide
\* returns true for at most one driver, and every other driver whose
\* driver:acceptRide has been handled was sent ride:acceptResult failed.
C11_SockSingleWinner ==
  \A r \in SockRides :
    /\ Cardinality(sockHist.won[r]) <= 1
    /\ \A d \in sockHist.tried[r] \ sockHist.won[r] :
          sockAccept[<<d, r>>].pc = "idle" => d \in sockHist.failed[r]

\* two drivers have answered one ride: one won, the other was refused
C11_Witness ==
  \E r \in SockRides : \E d, e \in Drivers :
    /\ d # e
    /\ d \in sockHist.won[r]
    /\ e \in sockHist.failed[r]
    /\ sockAccept[<<e, r>>].pc = "idle"

\* the rides driver d has accepted (tryAcceptRide returned true) and has not
\* finished with ride:finish
UnfinishedRides(d) ==
  {r \in SockRides : d \in sockHist.won[r] /\ <<d, r>> \notin sockHist.finished}

\* C12: no double-booking in the socket module.  At every reachable state each
\* driver is the accepting driver of at most one unfinished ride.
C12_SockNoDoubleBooking ==
  \A d \in Drivers : Cardinality(UnfinishedRides(d)) <= 1

\* ------------------------------------------------------------------------
\* Properties of the in-memory RideService
\* ------------------------------------------------------------------------
\* C13: the auto-cancel timer affects only pending rides.  A ride that is
\* accepted when its timer fires keeps status accepted and stays in
\* activeRides.
C13_TimerSparesAccepted ==
  [][\A r \in MemRides :
       (r \in rideTimers /\ r \notin rideTimers'
        /\ rideObj[r].status = "accepted" /\ r \in activeRides)
         => (rideObj'[r].status = "accepted" /\ r \in activeRides')]_vars

\* ------------------------------------------------------------------------
\* Properties of the Redis-backed engine, continued
\* ------------------------------------------------------------------------
\* C14: a request becomes all_rejected only when every driver of its
\* notifiedDrivers has a recorded response and no recorded response is an
\* accept; responses of drivers outside notifiedDrivers do not count.
\* (Stated for the transitions in which every recorded response comes from a
\* registered driver.)
C14_AllRejectedOnlyWhenAllAnswered ==
  [][\A r \in ReqIds :
       (/\ requests[r].status # "all_rejected"
        /\ requests'[r].status = "all_rejected"
        /\ \A d \in Drivers : requests'[r].responses[d] # None => Connected(d))
         => /\ \A d \in requests'[r].notifiedDrivers :
                  requests'[r].responses[d] # None
            /\ \A d \in Drivers : requests'[r].responses[d] # "accept"]_vars

\* C15: with request radius 5, expansion step 3, MAX_RADIUS 15 and no driver
\* found at any radius, the loop searches the radii 5, 8, 11, 14, 15 in that
\* order and ends in no_drivers_found reporting searchRadius 15.
C15_RadiusSequence ==
  (xp.first = 5 /\ xp.step = 3 /\ xp.max = 15 /\ xp.pc = "no_drivers_found")
    => (xp.radii = <<5, 8, 11, 14, 15>> /\ xp.reported = 15)

\* C16: monotonic radius.  The radii searched by one run of the loop are
\* non-decreasing and never exceed MAX_RADIUS, for every request radius up to
\* MAX_RADIUS and every expansion step >= 1.
C16_MonotonicRadius ==
  /\ \A k \in 1..Len(xp.radii) : xp.radii[k] <= xp.max
  /\ \A k \in 1..(Len(xp.radii) - 1) : xp.radii[k] <= xp.radii[k + 1]
  /\ xp.pc # "idle" => (xp.first <= xp.cur /\ xp.cur <= xp.max)

\* a run whose expansion was cut down to MAX_RADIUS and searched there
C16_Witness ==
  /\ Len(xp.radii) >= 2
  /\ xp.radii[Len(xp.radii)] = xp.max
  /\ xp.radii[Len(xp.radii) - 1] + xp.step > xp.max

\* C17: no re-notification.  For every ride request each driver is sent the
\* ride offer (ride:request in the socket module, new_ride_request in the
\* engine) at most once, over all rounds of radius expansion.
C17_NoRenotification ==
  /\ \A p \in SockPairs : sockHist.offers[p] <= 1
  /\ \A p \in Pairs : hist.offers[p] <= 1

\* a driver who holds the offer of a ride was eligible again in a later round
\* of that ride and was left out, and the engine has sent an offer as well
C17_Witness ==
  /\ \E p \in SockPairs : p \in sockHist.skipped /\ sockHist.offers[p] = 1
  /\ \E p \in Pairs : hist.offers[p] = 1

\* the drivers with a recorded response in the stored record of request r
Responders(r) == {d \in Drivers : requests[r].responses[d] # None}

\* C18: idempotent reject.  Processing a reject of a driver whose reject is
\* already recorded for the request leaves the stored status, the set of
\* responders and the all_rejected decision (the ride_all_rejected event, the
\* rider's active-request mapping) as the first processing left them.
C18_IdempotentReject ==
  [][\A p \in Pairs :
       (p \in hist.repeat /\ resp'[p] # resp[p])
         => /\ requests'[p[2]].status = requests[p[2]].status
            /\ Responders(p[2])' = Responders(p[2])
            /\ riderEvents'[p[2]] = riderEvents[p[2]]
            /\ userActive' = userActive]_vars

\* a driver's second reject of a request has been processed to its end on a
\* request that is still searching
C18_Witness ==
  \E p \in hist.repeated :
    outcome[p] = "rejected" /\ requests[p[2]].status = "searching"

\* driver p[1] has won request p[2]: the stored record is accepted by that
\* driver and the driver is bound to the request
HasWon(p) ==
  /\ requests[p[2]].status = "accepted"
  /\ requests[p[2]].acceptedBy = p[1]
  /\ driverActive[p[1]] = p[2]

\* C19: a duplicate accept is a no-op.  After driver d has won request R, the
\* steps of a further accept of d for R leave R's status, R's acceptedBy and
\* d's binding unchanged and emit neither ride_accepted nor
\* ride_request_cancelled for R.  (Stated for a driver who was sent the
\* offer of R.)
C19_DuplicateAcceptNoOp ==
  [][\A p \in Pairs :
       (/\ HasWon(p)
        /\ p[1] \in offered[p[2]]
        /\ resp[p].pc \in {"idle", "busy2"}
        /\ resp'[p] # resp[p]
        /\ resp'[p].response = "accept" \/ resp[p].response = "accept")
         => /\ requests'[p[2]].status = "accepted"
            /\ requests'[p[2]].acceptedBy = p[1]
            /\ driverActive'[p[1]] = p[2]
            /\ riderEvents'[p[2]]["ride_accepted"] = riderEvents[p[2]]["ride_accepted"]
            /\ drvCancelled'[p[2]] = drvCancelled[p[2]]]_vars

\* C20: at every reachable state a driver whose profile status is busy has
\* an active-ride binding in drivers:active_rides (the hash holds at most one
\* per driver) and a driver whose status is available has none.
C20_StatusMatchesBinding ==
  \A d \in Drivers :
    /\ profiles[d] = "busy" => driverActive[d] # 0
    /\ profiles[d] = "available" => driverActive[d] = 0

\* the statuses after which a request takes no further part in matching;
\* a rider's cancel is stored as cancelled_by_user by handleCancelRideRequest
\* and as cancelled by cancelRide
ClosedStatuses ==
  {"all_rejected", "no_drivers_found", "timeout", "cancelled",
   "cancelled_by_user", "completed"}

\* C21: bindings in lock-step with status.  Whenever the stored status of a
\* request is all_rejected, no_drivers_found, timeout, cancelled or completed,
\* no entry of users:active_requests and no entry of drivers:active_rides
\* refers to that request.
C21_BindingsLockStep ==
  \A r \in ReqIds :
    requests[r].status \in ClosedStatuses
      => /\ \A u \in Users : userActive[u] # r
         /\ \A d \in Drivers : driverActive[d] # r

\* C22: completeRide.  The multi of a completeRide called for request R with
\* R's rider and a driver who was offered R stores status completed only over
\* a stored status accepted and leaves any other stored status as it is; and
\* after it neither the rider's binding nor the driver's binding refers to R.
C22_CompleteOnlyFromAccepted ==
  [][(/\ cmpl.pc = "exec"
      /\ cmpl'.pc = "status"
      /\ cmpl.found
      /\ cmpl.user = requests[cmpl.req].userId
      /\ cmpl.driver \in offered[cmpl.req])
       => /\ requests[cmpl.req].status = "accepted"
               => requests'[cmpl.req].status = "completed"
          /\ requests[cmpl.req].status # "accepted"
               => requests'[cmpl.req].status = requests[cmpl.req].status
          /\ userActive'[cmpl.user] # cmpl.req
          /\ driverActive'[cmpl.driver] # cmpl.req]_vars

\* C23: removeDriver.  When removeDriver(d) returns (and d has not registered
\* again in the meantime), d has no profile, no entry in the geo index and
\* no binding in drivers:active_rides.  (Stated for a driver whose binding,
\* if any, names a request that d was offered.)
C23_RemoveClearsDriver ==
  [][\A d \in Drivers :
       (/\ rem[d] = "geo" /\ rem'[d] = "idle" /\ profiles[d] = None
        /\ driverActive[d] # 0 => d \in offered[driverActive[d]])
         => /\ profiles'[d] = None
            /\ dist'[d] = 0
            /\ driverActive'[d] = 0]_vars

\* C25: an accept of a removed driver fails.  When the accept multi of driver
\* d for request R runs while d has no profile (d was offered R and has been
\* removed since), the stored record of R is left as it is, d does not become
\* acceptedBy and no binding is created for d.
C25_RemovedDriverCannotWin ==
  [][\A p \in Pairs :
       (/\ resp[p].pc = "exec"
        /\ resp'[p].pc # "exec"
        /\ p[1] \in offered[p[2]]
        /\ profiles[p[1]] = None)
         => /\ requests'[p[2]] = requests[p[2]]
            /\ requests'[p[2]].acceptedBy # p[1]
            /\ driverActive'[p[1]] = driverActive[p[1]]]_vars

\* C24: driver disconnects after accepting.  When the socket of a driver d
\* disconnects (the driver leaves driverSockets while its geo entry stays)
\* and d is entered in driverActiveRide for a ride R that d has accepted,
\* the rider of R is sent rider:driverUnavailable and d's entry in
\* driverActiveRide is removed.
C24_DisconnectNotifiesRider ==
  [][\A d \in Drivers :
       (/\ d \in driverSockets
        /\ d \notin driverSockets'
        /\ geoIndex'[d] = geoIndex[d]
        /\ driverActiveRide[d] # 0
        /\ rideStatus[driverActiveRide[d]] = d)
         => /\ "rider:driverUnavailable" \in sockSent'[driverActiveRide[d]].rider
            /\ driverActiveRide'[d] = 0]_vars

\* the event that reports the stored status of request r, and whether it
\* has been emitted
EventOf(status) ==
  CASE status = "accepted" -> "ride_accepted"
    [] status = "all_rejected" -> "ride_all_rejected"
    [] status = "no_drivers_found" -> "no_drivers_found"
    [] status = "timeout" -> "ride_request_timeout"
    [] OTHER -> "ride_cancelled"

Settled(r) ==
  /\ requests[r].status \in TerminalStatuses
  /\ riderEvents[r][EventOf(requests[r].status)] > 0

\* C26: every request that is created is eventually stored with a status
\* other than searching (accepted, all_rejected, no_drivers_found, timeout or
\* cancelled) for which the matching event has been emitted, provided the
\* program's own steps (handlers resuming, timers firing) are taken.
C26_EveryRequestSettles ==
  \A r \in ReqIds : [](requests[r].status = "absent") \/ <>Settled(r)

C26_Witness ==
  /\ requests[1].status = "timeout"
  /\ riderEvents[1]["ride_request_timeout"] = 1
  /\ requests[1].notifiedDrivers = Drivers
  /\ tmo[1].pc = "done"

\* C27: after driver d has won request R, every other driver of R's
\* notifiedDrivers that has a connection is eventually sent
\* ride_request_cancelled for R, and d itself (a driver who was offered R)
\* is not sent ride_request_cancelled for R.
C27_LosersCancelledWinnerNot ==
  /\ [](\A p \in Pairs :
          (HasWon(p) /\ p[1] \in offered[p[2]]) => p[1] \notin drvCancelled[p[2]])
  /\ \A p \in Pairs, d \in Drivers :
       (/\ HasWon(p)
        /\ d # p[1]
        /\ d \in requests[p[2]].notifiedDrivers
        /\ Connected(d))
         ~> (d \in drvCancelled[p[2]] \/ ~Connected(d))

\* ride r has been cancelled (rider:cancelRide was processed) or accepted
\* (the driver:acceptRide handler of the driver stored in its status key has
\* run to its end)
SockClosed(r) ==
  \/ r \in sockHist.cancelled
  \/ \E d \in Drivers : rideStatus[r] = d /\ sockAccept[<<d, r>>].pc = "idle"

\* C28: in the socket module, once a ride has been accepted or cancelled,
\* searchTimerByRide holds no timer for it and the timer callback performs
\* no further expansion broadcast for it, wherever the callback was suspended
\* when the acceptance or cancellation was processed.
C28_NoTimerAfterClose ==
  /\ [](\A r \in SockRides : SockClosed(r) => r \notin searchTimerByRide)
  /\ [][\A r \in SockRides :
         SockClosed(r) => ~(ride[r].pc = "bcast" /\ ride'[r].pc = "wait")]_vars

\* C29: expand_search_radius.  When the handling of an expand_search_radius
\* for request R has ended: if R was stored as searching when the handler
\* read it, R itself now carries the expanded radius min(radius + step,
\* MAX_RADIUS) and no other request was created; if R was not searching, no
\* request was created.
C29_ExpandUpdatesSameRequest ==
  \A i \in FindIds :
    (find[i].pc = "done" /\ find[i].of # 0)
      => /\ find[i].req = 0
         /\ find[i].seen = "searching"
              => requests[find[i].of].radius = find[i].radius

\* C30: the sweep purges only terminal requests.  A step of
\* cleanupOldRequests that deletes a request from ride:requests deletes one
\* whose stored status is neither searching nor accepted.
C30_SweepSparesActive ==
  [][\A r \in ReqIds :
       (requests[r].status # "absent" /\ requests'[r].status = "absent")
         => requests[r].status \notin ActiveStatuses]_vars

\* C31: a failed backing-store read causes no state transition. A request
\* one of whose search passes failed while a driver was available never
\* becomes no_drivers_found; a driver whose binding read failed while the
\* driver was bound to an accepted ride does not win the searching request
\* the accept names; a rider
\* whose active-request read failed while the rider had an active request
\* never has two active requests.
C31_FailedReadNoTransition ==
  /\ \A r \in hist.faultSearch : requests[r].status # "no_drivers_found"
  /\ \A p \in hist.faultBusy :
        ~(requests[p[2]].status = "accepted" /\ requests[p[2]].acceptedBy = p[1])
  /\ \A u \in hist.faultUser :
        Cardinality({r \in ReqIds : requests[r].userId = u
                                    /\ requests[r].status \in ActiveStatuses}) <= 1
\* C32: in the socket module the expansion timer chain of a ride that no
\* driver tried to accept and the rider did not cancel does not stop
\* silently: when the chain has ended and the rider is still connected,
\* rider:noDrivers has been sent to the rider.
C32_SearchEndsWithNoDrivers ==
  \A r \in SockRides :
    (/\ ride[r].pc = "stopped"
     /\ sockHist.tried[r] = {}
     /\ r \notin sockHist.cancelled
     /\ r \in rideToRider)
      => "rider:noDrivers" \in sockSent[r].rider
\* C33: in the socket module's expanding search, whenever broadcastRide is
\* about to call getNearbyDrivers, the radius it passes is
\* SEARCH_INITIAL_RADIUS plus SEARCH_RADIUS_INCREMENT for every round so far,
\* and is at most MAX_RADIUS.
C33_SockRadiusCapped ==
  \A r \in SockRides :
    ride[r].pc \in {"first", "bcast"}
      => /\ ride[r].radius
              = SEARCH_INITIAL_RADIUS + ride[r].rounds * SEARCH_RADIUS_INCREMENT
         /\ sockMaxRadius # NoMax => ride[r].radius <= sockMaxRadius
\* C34: in the in-memory variant, when the driver:accept handler of a
\* successful accept has finished, every other online driver in the ride's
\* assignedDrivers has been sent ride:unavailable; when the ride:cancel
\* handler of a successful cancellation has finished, every online driver in
\* the ride's assignedDrivers has been sent ride:cancelled.
C34_AssignedDriversNotified ==
  /\ \A p \in hdl.accepted :
        (assignedDrivers[p[2]] \cap onlineDrivers) \ {p[1]}
          \subseteq hdlSent[p[2]].unavailable
  /\ \A r \in hdl.cancelled :
        assignedDrivers[r] \cap onlineDrivers \subseteq hdlSent[r].cancelled

\* C39: in the in-memory RideService every ride id is in at most one of
\* rideRequests and activeRides; a ride in rideRequests has status pending
\* and acceptedBy null; a ride in activeRides has status accepted and a
\* non-null acceptedBy.
C39_MemCollectionsConsistent ==
  /\ rideRequests \cap activeRides = {}
  /\ \A r \in rideRequests :
        rideObj[r].status = "pending" /\ rideObj[r].acceptedBy = None
  /\ \A r \in activeRides :
        rideObj[r].status = "accepted" /\ rideObj[r].acceptedBy # None

\* one ride has gone through createRideRequest, acceptRide and completeRide
\* and has left both collections while another is pending in rideRequests
C39_Witness ==
  /\ rideRequests # {}
  /\ \E r \in MemRides \ (rideRequests \cup activeRides) :
        rideObj[r].status = "completed" /\ rideObj[r].acceptedBy # None
\* C35: whenever a request of the Redis-backed engine is stored with status
\* accepted and its acceptedBy is a registered driver, that driver is one of
\* the request's notifiedDrivers.
C35_WinnerWasNotified ==
  \A r \in ReqIds :
    (requests[r].status = "accepted" /\ Connected(requests[r].acceptedBy))
      => requests[r].acceptedBy \in requests[r].notifiedDrivers
\* C36: every reject submitted for a searching request is recorded, also
\* when responses are processed concurrently.  For a request to which only
\* notified drivers have responded: while it is still searching, every
\* driver whose reject has been answered has its reject in the request's
\* responses map; and once every notified driver's reject has been answered
\* and no response is in flight, the request is all_rejected.
C36_RejectsRecorded ==
  \A r \in ReqIds :
    LET answered == {d \in Drivers : outcome[<<d, r>>] # None}
        inFlight == {d \in Drivers : resp[<<d, r>>].pc # "idle"}
    IN  answered \cup inFlight \subseteq requests[r].notifiedDrivers
          => /\ requests[r].status = "searching"
                  => \A d \in answered : requests[r].responses[d] = "reject"
             /\ (/\ requests[r].notifiedDrivers # {}
                 /\ answered = requests[r].notifiedDrivers
                 /\ inFlight = {})
                  => requests[r].status = "all_rejected"
\* the handleDriverResponse invocations for request r that are past
\* processingLocks.set(lockKey) and have not returned
PastLockSet(r) ==
  {p \in Pairs : p[2] = r /\ resp[p].pc \notin {"idle", "busy2", "busy3", "lockcheck"}}

\* C40: processingLocks[requestId] is removed only by an invocation that set
\* it.  Every step that removes the entry of request r is the return of an
\* invocation that was past processingLocks.set for r, and at most one
\* invocation per request is past processingLocks.set at any time.
C40_LockRemovedBySetter ==
  /\ [][\A r \in ReqIds :
         (r \in processingLocks /\ r \notin processingLocks')
           => \E p \in PastLockSet(r) : resp'[p].pc = "idle"]_vars
  /\ [](\A r \in ReqIds : Cardinality(PastLockSet(r)) <= 1)
\* C37: the stale-reference cleanup deletes no live binding.  A step in which
\* getDriverActiveRide executes its hdel for driver d does not delete a
\* binding that, at that moment, names a request stored as accepted by d; a
\* step in which getUserActiveRequest executes its hdel for user u does not
\* delete a binding that, at that moment, names a searching or accepted
\* request of u.
C37_CleanupSparesLiveBinding ==
  /\ [][\A p \in Pairs :
         (resp[p].pc = "busy3" /\ resp'[p].pc = "lockcheck")
           => ~DriverBusy(p[1])]_vars
  /\ [][\A i \in FindIds :
         (find[i].pc = "hdel" /\ find'[i].pc = "create")
           => LET u == find[i].user IN
                ~(/\ userActive[u] # 0
                  /\ requests[userActive[u]].userId = u
                  /\ requests[userActive[u]].status \in ActiveStatuses)]_vars
\* C38: in the socket module tryAcceptRide succeeds only for a ride whose
\* status key holds pending: every step in which the script answers 1 starts
\* in a state where rides:status:<rideId> is "pending" (not missing, not
\* expired, not a driver id).
C38_AcceptOnlyPending ==
  [][\A p \in SockPairs :
       (sockAccept[p].pc = "eval" /\ sockAccept'[p].pc = "finish")
         => rideStatus[p[2]] = "pending"]_vars
====
